---- MODULE Spec2Model ----
(***************************************************************************)
(* A model of embedded-term: the console (src/src/console.rs), its ANSI    *)
(* performer (src/src/ansi.rs), the rotating text buffer cache            *)
(* (src/src/text_buffer_cache.rs) and the write-only glyph renderer        *)
(* (src/src/graphic.rs) below it.                                          *)
(*                                                                         *)
(* Handlers are operators from a record of the console's fields to the     *)
(* record after the call; an action applies one API call (write_byte,      *)
(* write_str, pop_report, or a TextBuffer method of the cache) to the      *)
(* variables.                                                              *)
(***************************************************************************)
EXTENDS Integers, Sequences, FiniteSets, TLC

VARIABLES
    width,          \* TextBuffer::width() of the inner buffer (columns)
    height,         \* TextBuffer::height() of the inner buffer (rows)
    buf,            \* TextBufferCache.buf: the store, indexed [physical row][col]
    row_offset,     \* TextBufferCache.row_offset
    inner,          \* TextBufferCache.inner: last cell drawn at [row][col], <<>> if none
    cursor,         \* ConsoleInner.cursor
    saved_cursor,   \* ConsoleInner.saved_cursor
    temp,           \* ConsoleInner.temp: the attribute template
    auto_wrap,      \* ConsoleInner.auto_wrap
    report,         \* ConsoleInner.report: VecDeque<u8>
    parser,         \* Console.parser: the state of the VTE parser
    panicked,       \* TRUE after a call has panicked (index out of bounds, overflow check)
    last,           \* history: the handler the last byte ran ("none" if none), or the cache method last called
    ref             \* history: the un-rotated reference grid of the copying new_line policy

vars ==
    << width, height, buf, row_offset, inner, cursor, saved_cursor, temp,
       auto_wrap, report, parser, panicked, last, ref >>

---------------------------------------------------------------------------
(* Bytes: the C0 controls of ansi.rs and the ASCII bytes the model feeds.   *)

BS == 8
HT == 9
LF == 10
VT == 11
FF == 12
CR == 13
CAN == 24
SUB == 26
ESC == 27
DEL == 127
SPACE == 32

---------------------------------------------------------------------------
(* Colours, flags and cells (color.rs, cell.rs).                           *)

Named(n) == << "Named", n >>
Indexed(i) == << "Indexed", i >>
SpecRgb(r, g, b) == << "Spec", r, g, b >>

Black == 0
Red == 1
BrightWhite == 15

\* COLOR_MAP entries 0..15, the named colours in the order of NamedColor
NamedRgb ==
    << << 0, 0, 0 >>, << 194, 54, 33 >>, << 37, 188, 36 >>, << 173, 173, 39 >>,
       << 73, 46, 225 >>, << 211, 56, 211 >>, << 51, 187, 200 >>, << 203, 204, 205 >>,
       << 129, 131, 131 >>, << 252, 57, 31 >>, << 49, 231, 34 >>, << 234, 236, 35 >>,
       << 88, 51, 255 >>, << 249, 53, 248 >>, << 20, 240, 240 >>, << 233, 235, 235 >> >>

\* a cube level whose step is 45
cube_level_step_45(c) ==
    IF c = 0 THEN 0 ELSE (c * 45 + 55) % 256

\* the closure f of the colour cube loop; `as u8` keeps the low 8 bits
cube_level(c) ==
    IF c = 0 THEN 0 ELSE (c * 40 + 55) % 256

\* `index` of the colour cube loop
cube_index(r, g, b) == 16 + 36 * r + 6 * g + b

\* `index` and `c` of the grayscale loop
gray_index(i) == 16 + 216 + i
gray_level(i) == (i * 10 + 8) % 256

\* the table the initialiser of COLOR_MAP leaves: the array of 256 default
\* colours, then the named entries, the cube loop and the grayscale loop, each
\* store overwriting what was there
COLOR_MAP ==
    [ idx \in 0 .. 255 |->
        IF \E i \in 0 .. 23 : gray_index(i) = idx
        THEN LET i == CHOOSE i \in 0 .. 23 : gray_index(i) = idx
             IN  << gray_level(i), gray_level(i), gray_level(i) >>
        ELSE IF \E r, g, b \in 0 .. 5 : cube_index(r, g, b) = idx
        THEN LET t == CHOOSE t \in (0 .. 5) \X (0 .. 5) \X (0 .. 5) :
                          cube_index(t[1], t[2], t[3]) = idx
             IN  << cube_level(t[1]), cube_level(t[2]), cube_level(t[3]) >>
        ELSE IF idx < 16
        THEN NamedRgb[idx + 1]
        ELSE << 0, 0, 0 >> ]

\* a store of the initialiser indexes past the 256 entries, which panics
color_map_panics ==
    \/ \E r, g, b \in 0 .. 5 : cube_index(r, g, b) > 255
    \/ \E i \in 0 .. 23 : gray_index(i) > 255

\* Color::to_rgb; "panic" when the table cannot be built or indexed
to_rgb(color) ==
    IF color[1] = "Spec"
    THEN << color[2], color[3], color[4] >>
    ELSE IF color_map_panics \/ color[2] \notin DOMAIN COLOR_MAP
    THEN "panic"
    ELSE COLOR_MAP[color[2]]

AllFlags ==
    { "INVERSE", "BOLD", "ITALIC", "UNDERLINE", "WRAPLINE", "WIDE_CHAR",
      "WIDE_CHAR_SPACER", "DIM", "HIDDEN", "STRIKEOUT",
      "LEADING_WIDE_CHAR_SPACER", "DOUBLE_UNDERLINE" }

\* Cell::default
DefaultCell ==
    [ c |-> SPACE, fg |-> Named(BrightWhite), bg |-> Named(Black), flags |-> {} ]

\* Cell::bg: the default cell with bg taken from `cell`
CellBg(cell) ==
    [ DefaultCell EXCEPT !.bg = cell.bg ]

Min(a, b) == IF a <= b THEN a ELSE b

\* usize::saturating_sub
SatSub(a, b) == IF a >= b THEN a - b ELSE 0

Rows == 0 .. height - 1
Cols == 0 .. width - 1

---------------------------------------------------------------------------
(* The inner buffer: TextOnGraphic (graphic.rs) seen as the grid of the     *)
(* cell last drawn at each position. It cannot be read.                     *)

\* CHAR_SIZE: the character_size of FONT_9X18
CHAR_SIZE == [ width |-> 9, height |-> 18 ]

\* TextOnGraphic::width and ::height for a target of the given pixel size
graphic_width(px_width) == px_width \div CHAR_SIZE.width
graphic_height(px_height) == px_height \div CHAR_SIZE.height

\* the Text a write builds and draws: its string, position and style
graphic_text(row, col, cell, fg, bg) ==
    [ text |-> cell.c,
      x |-> col * CHAR_SIZE.width,
      y |-> row * CHAR_SIZE.height,
      text_color |-> to_rgb(fg),
      background_color |-> to_rgb(bg),
      font |-> IF "BOLD" \in cell.flags THEN "FONT_BOLD" ELSE "FONT",
      strikethrough |-> "STRIKEOUT" \in cell.flags,
      underline |-> "UNDERLINE" \in cell.flags ]

\* a TextOnGraphic::write that never swaps the colours
graphic_write_no_swap(g, row, col, cell) ==
    IF row >= graphic_height(g.height) \/ col >= graphic_width(g.width)
    THEN << >>
    ELSE << graphic_text(row, col, cell, cell.fg, cell.bg) >>

\* TextOnGraphic::write on a target g of g.width x g.height pixels: the draws
\* it makes on the target
graphic_write(g, row, col, cell) ==
    IF row >= graphic_height(g.height) \/ col >= graphic_width(g.width)
    THEN << >>
    ELSE IF "INVERSE" \in cell.flags
    THEN << graphic_text(row, col, cell, cell.bg, cell.fg) >>
    ELSE << graphic_text(row, col, cell, cell.fg, cell.bg) >>

\* what `text.draw(&mut self.graphic)` can do: draw and return Ok, or return
\* an Err with the pixels of the cell as they were, or with them partly drawn
DrawOutcomes == { "ok", "lost", "torn" }

\* the picture of a cell that a failed draw left partly drawn
Torn == << "torn" >>

\* TextOnGraphic::write: out-of-range positions are not drawn; the Result of
\* the draw is dropped by `.ok()`
inner_write(g, row, col, cell, draw) ==
    IF row >= height \/ col >= width
    THEN g
    ELSE CASE draw = "ok" -> [ g EXCEPT ![row][col] = << cell >> ]
           [] draw = "lost" -> g
           [] draw = "torn" -> [ g EXCEPT ![row][col] = Torn ]

RECURSIVE inner_clear_from(_, _, _, _)
inner_clear_from(g, k, cell, draw) ==
    IF k >= height * width
    THEN g
    ELSE inner_clear_from(inner_write(g, k \div width, k % width, cell, draw),
                          k + 1, cell, draw)

\* TextBuffer::clear (the default method): a write at every (i, j), row by row
inner_clear(g, cell, draw) ==
    inner_clear_from(g, 0, cell, draw)

---------------------------------------------------------------------------
(* TextBufferCache (text_buffer_cache.rs). `s` is a record holding at       *)
(* least buf, row_offset, inner and panicked, and `draw`, the outcome of    *)
(* the draws on the inner buffer's target during the call.                  *)

\* TextBufferCache::real_row
real_row(s, row) ==
    (s.row_offset + row) % height

\* TextBufferCache::read; the Vec index panics for col >= width
cache_read(s, row, col) ==
    s.buf[real_row(s, row)][col]

\* a write that gives up, before the store, when the draw fails
cache_write_draw_first(s, row, col, cell) ==
    IF s.panicked \/ s.draw # "ok"
    THEN s
    ELSE IF col >= width
    THEN [ s EXCEPT !.panicked = TRUE ]
    ELSE [ s EXCEPT !.buf[real_row(s, row)][col] = cell,
                    !.inner = inner_write(s.inner, real_row(s, row), col, cell, s.draw) ]

\* TextBufferCache::write: `row` is shadowed by real_row(row) before both writes
cache_write(s, row, col, cell) ==
    IF s.panicked
    THEN s
    ELSE IF col >= width
    THEN [ s EXCEPT !.panicked = TRUE ]
    ELSE [ s EXCEPT !.buf[real_row(s, row)][col] = cell,
                    !.inner = inner_write(s.inner, real_row(s, row), col, cell, s.draw) ]

RECURSIVE cache_clear_line_from(_, _, _, _)
cache_clear_line_from(s, row, col, cell) ==
    IF col >= width
    THEN s
    ELSE cache_clear_line_from(
             [ s EXCEPT !.buf[row][col] = cell,
                        !.inner = inner_write(s.inner, row, col, cell, s.draw) ],
             row, col + 1, cell)

\* a clear_line that works on the row after `row`
cache_clear_line_next(s, row, cell) ==
    cache_clear_line_from(s, (row + 1) % height, 0, cell)

\* TextBufferCache::clear_line: `row` is a physical row
cache_clear_line(s, row, cell) ==
    cache_clear_line_from(s, row, 0, cell)

\* a new_line that forgets to advance row_offset
cache_new_line_no_rotate(s, cell) ==
    IF s.panicked THEN s ELSE cache_clear_line(s, s.row_offset, cell)

\* TextBufferCache::new_line
cache_new_line(s, cell) ==
    IF s.panicked
    THEN s
    ELSE [ cache_clear_line(s, s.row_offset, cell)
             EXCEPT !.row_offset = (s.row_offset + 1) % height ]

\* TextBufferCache::clear: the store `buf` is not touched
cache_clear(s, cell) ==
    IF s.panicked
    THEN s
    ELSE [ s EXCEPT !.row_offset = 0, !.inner = inner_clear(s.inner, cell, s.draw) ]

\* The calls a cache operation makes on the inner buffer, in order.
InnerWrite(row, col, cell) ==
    [ op |-> "write", row |-> row, col |-> col, cell |-> cell ]

\* TextBufferCache::write: one write, at the physical row
cache_write_calls(s, row, col, cell) ==
    << InnerWrite(real_row(s, row), col, cell) >>

\* TextBufferCache::clear_line: one write for each col in 0..width
RECURSIVE cache_clear_line_calls(_, _, _)
cache_clear_line_calls(row, col, cell) ==
    IF col >= width
    THEN << >>
    ELSE << InnerWrite(row, col, cell) >> \o cache_clear_line_calls(row, col + 1, cell)

\* TextBufferCache::new_line: the calls of clear_line(row_offset, cell)
cache_new_line_calls(s, cell) ==
    cache_clear_line_calls(s.row_offset, 0, cell)

\* TextBufferCache::clear: one call of the inner buffer's clear
cache_clear_calls(s, cell) ==
    << [ op |-> "clear", cell |-> cell ] >>

\* The logical grid as read through the cache
Read(r, c) ==
    buf[(row_offset + r) % height][c]

\* The same in the state a step leads to
ReadNext(r, c) ==
    buf'[(row_offset' + r) % height][c]

---------------------------------------------------------------------------
(* ConsoleInner's Handler implementation (console.rs). `s` is the record of *)
(* the console's fields; `s.oc` says whether the build checks arithmetic    *)
(* overflow (a debug build panics, a release build wraps).                  *)

\* the record with the handler `op` noted as the last one run
Tag(s, op) ==
    [ s EXCEPT !.last = [ op |-> op, args |-> << >> ] ]

\* the same, with the handler's argument and the cursor it was called at
TagArgs(s, op, args) ==
    [ s EXCEPT !.last = [ op |-> op, args |-> args ] ]

\* ConsoleInner::linefeed that keeps the column
linefeed_keep_col(s) ==
    IF s.cursor.row < height - 1
    THEN TagArgs([ s EXCEPT !.cursor.row = @ + 1 ], "linefeed", << s.cursor.row >>)
    ELSE TagArgs(cache_new_line(s, s.temp), "linefeed", << s.cursor.row >>)

\* ConsoleInner::linefeed: new_line is given the whole template
linefeed(s) ==
    LET s1 == [ s EXCEPT !.cursor.col = 0 ]
    IN  IF s1.cursor.row < height - 1
        THEN TagArgs([ s1 EXCEPT !.cursor.row = @ + 1 ], "linefeed", << s.cursor.row >>)
        ELSE TagArgs(cache_new_line(s1, s1.temp), "linefeed", << s.cursor.row >>)

\* the tail of ConsoleInner::input: compose the cell, write it, advance
input_put(s, c) ==
    LET w == cache_write(s, s.cursor.row, s.cursor.col, [ s.temp EXCEPT !.c = c ])
    IN  IF w.panicked THEN w ELSE [ w EXCEPT !.cursor.col = @ + 1 ]

\* ConsoleInner::input that writes at the margin without wrapping first
input_no_wrap(s, c) ==
    IF s.cursor.col >= width /\ ~s.auto_wrap
    THEN TagArgs(s, "input", << c, s.cursor.row, s.cursor.col >>)
    ELSE TagArgs(input_put([ s EXCEPT !.cursor.col = Min(@, width - 1) ], c),
                 "input", << c, s.cursor.row, s.cursor.col >>)

\* ConsoleInner::input that ignores auto_wrap
input_always_wrap(s, c) ==
    IF s.cursor.col >= width
    THEN TagArgs(input_put(linefeed([ s EXCEPT !.cursor.col = 0 ]), c),
                 "input", << c, s.cursor.row, s.cursor.col >>)
    ELSE TagArgs(input_put(s, c), "input", << c, s.cursor.row, s.cursor.col >>)

\* ConsoleInner::input
input(s, c) ==
    IF s.cursor.col >= width
    THEN IF ~s.auto_wrap
         THEN TagArgs(s, "input", << c, s.cursor.row, s.cursor.col >>)
         ELSE TagArgs(input_put(linefeed([ s EXCEPT !.cursor.col = 0 ]), c),
                      "input", << c, s.cursor.row, s.cursor.col >>)
    ELSE TagArgs(input_put(s, c), "input", << c, s.cursor.row, s.cursor.col >>)

\* ConsoleInner::goto without the column clamp
goto_unclamped_col(s, row, col) ==
    [ s EXCEPT !.cursor = [ row |-> Min(row, height), col |-> col ] ]

\* ConsoleInner::goto: min(row, height), min(col, width)
goto(s, row, col) ==
    [ s EXCEPT !.cursor = [ row |-> Min(row, height), col |-> Min(col, width) ] ]

\* ConsoleInner::goto_line
goto_line(s, row) ==
    Tag(goto(s, row, s.cursor.col), "goto_line")

\* ConsoleInner::goto_col
goto_col(s, col) ==
    Tag(goto(s, s.cursor.row, col), "goto_col")

\* ConsoleInner::move_up
move_up(s, rows) ==
    Tag(goto(s, SatSub(s.cursor.row, rows), s.cursor.col), "move_up")

\* a move_down that leaves the clamp to goto
move_down_unclamped(s, rows) ==
    Tag(goto(s, s.cursor.row + rows, s.cursor.col), "move_down")

\* ConsoleInner::move_down
move_down(s, rows) ==
    Tag(goto(s, Min(s.cursor.row + rows, height - 1), s.cursor.col), "move_down")

\* a move_forward that stops at the width
move_forward_to_width(s, cols) ==
    Tag([ s EXCEPT !.cursor.col = Min(s.cursor.col + cols, width) ], "move_forward")

\* ConsoleInner::move_forward
move_forward(s, cols) ==
    Tag([ s EXCEPT !.cursor.col = Min(s.cursor.col + cols, width - 1) ], "move_forward")

\* ConsoleInner::move_backward
move_backward(s, cols) ==
    Tag([ s EXCEPT !.cursor.col = SatSub(s.cursor.col, cols) ], "move_backward")

\* ConsoleInner::move_down_and_cr
move_down_and_cr(s, rows) ==
    Tag(goto(s, Min(s.cursor.row + rows, height - 1), 0), "move_down_and_cr")

\* ConsoleInner::move_up_and_cr
move_up_and_cr(s, rows) ==
    Tag(goto(s, SatSub(s.cursor.row, rows), 0), "move_up_and_cr")

\* the inner `loop` of put_tab: write, advance, stop at width or at a multiple of 8
RECURSIVE put_tab_loop(_, _)
put_tab_loop(s, bg) ==
    LET w == cache_write(s, s.cursor.row, s.cursor.col, bg)
        n == [ w EXCEPT !.cursor.col = @ + 1 ]
    IN  IF w.panicked
        THEN w
        ELSE IF n.cursor.col = width \/ n.cursor.col % 8 = 0
        THEN n
        ELSE put_tab_loop(n, bg)

RECURSIVE put_tab_while(_, _, _)
put_tab_while(s, count, bg) ==
    IF ~s.panicked /\ s.cursor.col < width /\ count > 0
    THEN put_tab_while(put_tab_loop(s, bg), count - 1, bg)
    ELSE s

\* ConsoleInner::put_tab that advances without filling
put_tab_no_fill(s, count) ==
    Tag(IF s.cursor.col < width /\ count > 0
        THEN [ s EXCEPT !.cursor.col = Min(width, (s.cursor.col \div 8) * 8 + 8) ]
        ELSE s, "put_tab")

\* ConsoleInner::put_tab
put_tab(s, count) ==
    Tag(put_tab_while(s, count, CellBg(s.temp)), "put_tab")

\* a backspace that also blanks the cell it moves onto
backspace_erasing(s) ==
    Tag(IF s.cursor.col > 0
        THEN cache_write([ s EXCEPT !.cursor.col = @ - 1 ], s.cursor.row,
                         s.cursor.col - 1, CellBg(s.temp))
        ELSE s, "backspace")

\* ConsoleInner::backspace
backspace(s) ==
    Tag(IF s.cursor.col > 0 THEN [ s EXCEPT !.cursor.col = @ - 1 ] ELSE s, "backspace")

\* ConsoleInner::carriage_return
carriage_return(s) ==
    Tag([ s EXCEPT !.cursor.col = 0 ], "carriage_return")

\* a scroll_up that rotates the grid by one row
scroll_up_new_line(s, rows) ==
    Tag(cache_new_line(s, CellBg(s.temp)), "scroll_up")

\* ConsoleInner::scroll_up: logged only
scroll_up(s, rows) ==
    Tag(s, "scroll_up")

\* ConsoleInner::scroll_down: logged only
scroll_down(s, rows) ==
    Tag(s, "scroll_down")

\* `for i in from..to { self.buf.write(row, i, cell) }`
RECURSIVE write_cols(_, _, _, _, _)
write_cols(s, row, from, to, cell) ==
    IF from >= to \/ s.panicked
    THEN s
    ELSE write_cols(cache_write(s, row, from, cell), row, from + 1, to, cell)

\* `for i in from..to { for j in 0..width { self.buf.write(i, j, cell) } }`
RECURSIVE write_rows(_, _, _, _)
write_rows(s, from, to, cell) ==
    IF from >= to \/ s.panicked
    THEN s
    ELSE write_rows(write_cols(s, from, 0, width, cell), from + 1, to, cell)

\* ConsoleInner::erase_chars writing the fully default cell
erase_chars_default(s, count) ==
    LET start == s.cursor.col
        end == Min(start + count, width)
    IN  TagArgs(write_cols(s, s.cursor.row, start, end, DefaultCell),
                "erase_chars", << count >>)

\* ConsoleInner::erase_chars
erase_chars(s, count) ==
    LET start == s.cursor.col
        end == Min(start + count, width)
    IN  TagArgs(write_cols(s, s.cursor.row, start, end, CellBg(s.temp)),
                "erase_chars", << count >>)

\* the loop of delete_chars: move cell i to i - count, blank cell i
RECURSIVE delete_chars_loop(_, _, _, _, _)
delete_chars_loop(s, row, i, count, bg) ==
    IF i >= width \/ s.panicked
    THEN s
    ELSE LET w == cache_write(s, row, i - count, cache_read(s, row, i))
         IN  delete_chars_loop(cache_write(w, row, i, bg), row, i + 1, count, bg)

\* ConsoleInner::delete_chars. `columns - self.cursor.col - 1` underflows when
\* col = width: a panic with overflow checks, a wrap to usize::MAX without
\* (count is then unchanged and the loop range end..columns is empty).
delete_chars(s, count) ==
    IF s.cursor.col + 1 > width
    THEN IF s.oc
         THEN TagArgs([ s EXCEPT !.panicked = TRUE ], "delete_chars", << count >>)
         ELSE TagArgs(s, "delete_chars", << count >>)
    ELSE LET cnt == Min(count, width - s.cursor.col - 1)
             end == s.cursor.col + cnt
         IN  TagArgs(delete_chars_loop(s, s.cursor.row, end, cnt, CellBg(s.temp)),
                     "delete_chars", << count >>)

\* ConsoleInner::save_cursor_position that stores nothing
save_cursor_position_nothing(s) ==
    Tag(s, "save_cursor_position")

\* ConsoleInner::save_cursor_position
save_cursor_position(s) ==
    Tag([ s EXCEPT !.saved_cursor = s.cursor ], "save_cursor_position")

\* ConsoleInner::restore_cursor_position
restore_cursor_position(s) ==
    Tag([ s EXCEPT !.cursor = s.saved_cursor ], "restore_cursor_position")

\* ConsoleInner::clear_line; Left runs 0..=col, which reaches column `width`
\* when the cursor is at the deferred-wrap position
clear_line(s, mode) ==
    LET bg == CellBg(s.temp)
        row == s.cursor.row
    IN  CASE mode = "Right" ->
                TagArgs(write_cols(s, row, s.cursor.col, width, bg),
                        "clear_line", << mode >>)
          [] mode = "Left" ->
                TagArgs(write_cols(s, row, 0, s.cursor.col + 1, bg),
                        "clear_line", << mode >>)
          [] mode = "All" ->
                TagArgs(write_cols(s, row, 0, width, bg), "clear_line", << mode >>)

\* ConsoleInner::clear_screen
clear_screen(s, mode) ==
    LET bg == CellBg(s.temp)
        row == s.cursor.row
        col == s.cursor.col
    IN  CASE mode = "Above" ->
                TagArgs(write_cols(write_rows(s, 0, row, bg), row, 0, col, bg),
                        "clear_screen", << mode >>)
          [] mode = "Below" ->
                TagArgs(write_rows(write_cols(s, row, col, width, bg), row + 1, height, bg),
                        "clear_screen", << mode >>)
          [] mode = "All" ->
                TagArgs([ cache_clear(s, bg) EXCEPT !.cursor = [ row |-> 0, col |-> 0 ] ],
                        "clear_screen", << mode >>)
          [] OTHER ->
                TagArgs(s, "clear_screen", << mode >>)

\* a terminal_attribute whose Reset restores the colours and keeps the flags
terminal_attribute_reset_colours(s, attr) ==
    CASE attr.kind = "Foreground" -> [ s EXCEPT !.temp.fg = attr.color ]
      [] attr.kind = "Background" -> [ s EXCEPT !.temp.bg = attr.color ]
      [] attr.kind = "Reset" ->
            [ s EXCEPT !.temp.fg = DefaultCell.fg, !.temp.bg = DefaultCell.bg ]
      [] attr.kind = "Reverse" -> [ s EXCEPT !.temp.flags = @ \cup { "INVERSE" } ]
      [] attr.kind = "Bold" -> [ s EXCEPT !.temp.flags = @ \cup { "BOLD" } ]
      [] OTHER -> s

\* ConsoleInner::terminal_attribute
terminal_attribute(s, attr) ==
    CASE attr.kind = "Foreground" -> [ s EXCEPT !.temp.fg = attr.color ]
      [] attr.kind = "Background" -> [ s EXCEPT !.temp.bg = attr.color ]
      [] attr.kind = "Reset" -> [ s EXCEPT !.temp = DefaultCell ]
      [] attr.kind = "Reverse" -> [ s EXCEPT !.temp.flags = @ \cup { "INVERSE" } ]
      [] attr.kind = "CancelReverse" -> [ s EXCEPT !.temp.flags = @ \ { "INVERSE" } ]
      [] attr.kind = "Bold" -> [ s EXCEPT !.temp.flags = @ \cup { "BOLD" } ]
      [] attr.kind = "CancelBold" -> [ s EXCEPT !.temp.flags = @ \ { "BOLD" } ]
      [] attr.kind = "Dim" -> [ s EXCEPT !.temp.flags = @ \cup { "DIM" } ]
      [] attr.kind = "CancelBoldDim" -> [ s EXCEPT !.temp.flags = @ \ { "BOLD", "DIM" } ]
      [] attr.kind = "Italic" -> [ s EXCEPT !.temp.flags = @ \cup { "ITALIC" } ]
      [] attr.kind = "CancelItalic" -> [ s EXCEPT !.temp.flags = @ \ { "ITALIC" } ]
      [] attr.kind = "Underline" -> [ s EXCEPT !.temp.flags = @ \cup { "UNDERLINE" } ]
      [] attr.kind = "CancelUnderline" -> [ s EXCEPT !.temp.flags = @ \ { "UNDERLINE" } ]
      [] attr.kind = "Hidden" -> [ s EXCEPT !.temp.flags = @ \cup { "HIDDEN" } ]
      [] attr.kind = "CancelHidden" -> [ s EXCEPT !.temp.flags = @ \ { "HIDDEN" } ]
      [] attr.kind = "Strike" -> [ s EXCEPT !.temp.flags = @ \cup { "STRIKEOUT" } ]
      [] attr.kind = "CancelStrike" -> [ s EXCEPT !.temp.flags = @ \ { "STRIKEOUT" } ]
      [] OTHER -> s

\* ConsoleInner::set_mode
set_mode(s, mode) ==
    Tag(IF mode = "LineWrap" THEN [ s EXCEPT !.auto_wrap = TRUE ] ELSE s, "set_mode")

\* ConsoleInner::unset_mode
unset_mode(s, mode) ==
    Tag(IF mode = "LineWrap" THEN [ s EXCEPT !.auto_wrap = FALSE ] ELSE s, "unset_mode")

\* ConsoleInner::set_scrolling_region: logged only
set_scrolling_region(s, top, bottom) ==
    Tag(s, "set_scrolling_region")

\* the decimal digits of n as ASCII bytes, as format!("{}") prints a usize
RECURSIVE Decimal(_)
Decimal(n) ==
    IF n < 10 THEN << 48 + n >> ELSE Decimal(n \div 10) \o << 48 + (n % 10) >>

\* ConsoleInner::device_status reporting the 0-based position
device_status_zero_based(s, arg) ==
    CASE arg = 5 ->
            TagArgs([ s EXCEPT !.report = @ \o << ESC, 91, 48, 110 >> ],
                    "device_status", << arg >>)
      [] arg = 6 ->
            TagArgs([ s EXCEPT !.report =
                          @ \o << ESC, 91 >> \o Decimal(s.cursor.row) \o << 59 >>
                            \o Decimal(s.cursor.col) \o << 82 >> ],
                    "device_status", << arg >>)
      [] OTHER ->
            TagArgs(s, "device_status", << arg >>)

\* a device_status whose replies lack their final byte
device_status_unterminated(s, arg) ==
    CASE arg = 5 ->
            TagArgs([ s EXCEPT !.report = @ \o << ESC, 91, 48 >> ],
                    "device_status", << arg >>)
      [] arg = 6 ->
            TagArgs([ s EXCEPT !.report =
                          @ \o << ESC, 91 >> \o Decimal(s.cursor.row + 1) \o << 59 >>
                            \o Decimal(s.cursor.col + 1) ],
                    "device_status", << arg >>)
      [] OTHER ->
            TagArgs(s, "device_status", << arg >>)

\* ConsoleInner::device_status
device_status(s, arg) ==
    CASE arg = 5 ->
            TagArgs([ s EXCEPT !.report = @ \o << ESC, 91, 48, 110 >> ],
                    "device_status", << arg >>)
      [] arg = 6 ->
            TagArgs([ s EXCEPT !.report =
                          @ \o << ESC, 91 >> \o Decimal(s.cursor.row + 1) \o << 59 >>
                            \o Decimal(s.cursor.col + 1) \o << 82 >> ],
                    "device_status", << arg >>)
      [] OTHER ->
            TagArgs(s, "device_status", << arg >>)

\* Console::pop_report taking the newest byte
pop_report_back(s) ==
    IF s.report = << >>
    THEN TagArgs(s, "pop_report", << >>)
    ELSE TagArgs([ s EXCEPT !.report = SubSeq(@, 1, Len(@) - 1) ],
                 "pop_report", << s.report[Len(s.report)] >>)

\* Console::pop_report: VecDeque::pop_front; the history notes the byte
\* returned (none for None)
pop_report(s) ==
    IF s.report = << >>
    THEN TagArgs(s, "pop_report", << >>)
    ELSE TagArgs([ s EXCEPT !.report = Tail(@) ], "pop_report", << Head(s.report) >>)

---------------------------------------------------------------------------
(* Mode::from_primitive, attrs_from_sgr_parameters, parse_sgr_color and the *)
(* Performer (ansi.rs). A parameter list is a sequence of parameters, each  *)
(* the sequence of its colon-separated sub-parameters (vte::Params).        *)

Ascii ==
    [ ch \in { "ESC", "BEL", "BS", "HT", "LF", "VT", "FF", "CR", "CAN" } |->
        CASE ch = "ESC" -> ESC [] ch = "BEL" -> 7 [] ch = "BS" -> BS
          [] ch = "HT" -> HT [] ch = "LF" -> LF [] ch = "VT" -> VT
          [] ch = "FF" -> FF [] ch = "CR" -> CR [] ch = "CAN" -> CAN ]
    @@ (" " :> 32) @@ ("!" :> 33) @@ ("$" :> 36) @@ (">" :> 62) @@ ("?" :> 63) @@ (";" :> 59) @@ (":" :> 58)
    @@ ("[" :> 91) @@ ("BACKSLASH" :> 92) @@ ("]" :> 93) @@ ("GRAVE" :> 96)
    @@ ("0" :> 48) @@ ("1" :> 49) @@ ("2" :> 50) @@ ("3" :> 51) @@ ("4" :> 52)
    @@ ("5" :> 53) @@ ("6" :> 54) @@ ("7" :> 55) @@ ("8" :> 56) @@ ("9" :> 57)
    @@ ("A" :> 65) @@ ("B" :> 66) @@ ("C" :> 67) @@ ("D" :> 68) @@ ("E" :> 69)
    @@ ("F" :> 70) @@ ("G" :> 71) @@ ("H" :> 72) @@ ("J" :> 74) @@ ("K" :> 75)
    @@ ("P" :> 80) @@ ("R" :> 82) @@ ("S" :> 83) @@ ("T" :> 84) @@ ("X" :> 88)
    @@ ("Y" :> 89) @@ ("Z" :> 90) @@ ("a" :> 97) @@ ("c" :> 99) @@ ("d" :> 100) @@ ("e" :> 101)
    @@ ("f" :> 102) @@ ("h" :> 104) @@ ("l" :> 108) @@ ("m" :> 109)
    @@ ("n" :> 110) @@ ("r" :> 114) @@ ("t" :> 116)

\* the byte of a character
B(ch) == Ascii[ch]

\* the bytes of a string given as a sequence of characters
Bytes(chs) == [ i \in 1 .. Len(chs) |-> Ascii[chs[i]] ]

\* a from_primitive that reads every mode number as a private one
from_primitive_all_private(intermediates, num) ==
    IF num = 7 THEN "LineWrap" ELSE "None"

\* Mode::from_primitive; "None" stands for Option::None
from_primitive(intermediates, num) ==
    IF intermediates # << >> /\ intermediates[1] # B("?")
    THEN "None"
    ELSE IF intermediates # << >>
    THEN CASE num = 1 -> "CursorKeys"
           [] num = 3 -> "ColumnMode"
           [] num = 6 -> "Origin"
           [] num = 7 -> "LineWrap"
           [] num = 12 -> "BlinkingCursor"
           [] num = 25 -> "ShowCursor"
           [] num = 1000 -> "ReportMouseClicks"
           [] num = 1002 -> "ReportCellMouseMotion"
           [] num = 1003 -> "ReportAllMouseMotion"
           [] num = 1004 -> "ReportFocusInOut"
           [] num = 1005 -> "Utf8Mouse"
           [] num = 1006 -> "SgrMouse"
           [] num = 1007 -> "AlternateScroll"
           [] num = 1042 -> "UrgencyHints"
           [] num = 1049 -> "SwapScreenAndSetRestoreCursor"
           [] num = 2004 -> "BracketedPaste"
           [] OTHER -> "None"
    ELSE CASE num = 4 -> "Insert"
           [] num = 20 -> "LineFeedNewLine"
           [] OTHER -> "None"

NoColor == << >>

\* a parse_sgr_color that takes the u16 values without the u8 conversion
parse_sgr_color_unchecked(vals) ==
    LET n == Len(vals)
        none(k) == [ color |-> NoColor, used |-> k ]
    IN  IF n = 0
        THEN none(0)
        ELSE IF vals[1] = 2
        THEN IF n < 4 THEN none(n)
             ELSE [ color |-> SpecRgb(vals[2], vals[3], vals[4]), used |-> 4 ]
        ELSE IF vals[1] = 5
        THEN IF n < 2 THEN none(1)
             ELSE [ color |-> Indexed(vals[2]), used |-> 2 ]
        ELSE none(1)

\* parse_sgr_color over the values `vals` left in the iterator: the colour
\* (NoColor for None) and how many values the call consumed
parse_sgr_color(vals) ==
    LET n == Len(vals)
        none(k) == [ color |-> NoColor, used |-> k ]
    IN  IF n = 0
        THEN none(0)
        ELSE IF vals[1] = 2
        THEN IF n < 2 THEN none(1)
             ELSE IF vals[2] > 255 THEN none(2)
             ELSE IF n < 3 THEN none(2)
             ELSE IF vals[3] > 255 THEN none(3)
             ELSE IF n < 4 THEN none(3)
             ELSE IF vals[4] > 255 THEN none(4)
             ELSE [ color |-> SpecRgb(vals[2], vals[3], vals[4]), used |-> 4 ]
        ELSE IF vals[1] = 5
        THEN IF n < 2 THEN none(1)
             ELSE IF vals[2] > 255 THEN none(2)
             ELSE [ color |-> Indexed(vals[2]), used |-> 2 ]
        ELSE none(1)

Attr(kind) == [ kind |-> kind ]
ColorAttr(kind, color) ==
    IF color = NoColor THEN Attr("None") ELSE [ kind |-> kind, color |-> color ]

\* the values parse_sgr_color sees for `38:...` / `48:...`: the selector, then
\* the sub-parameters from rgb_start on
SubColorVals(sub) ==
    LET rgb_start == IF Len(sub) > 4 THEN 2 ELSE 1
    IN  << sub[1] >> \o SubSeq(sub, rgb_start + 1, Len(sub))

\* one arm of the match in attrs_from_sgr_parameters for parameter i: the
\* attribute (kind "None" for None) and how many further parameters it consumed
sgr_attr(params, i) ==
    LET p == params[i]
        v == p[1]
        one(a) == [ attr |-> a, used |-> 0 ]
        rest == [ k \in 1 .. Len(params) - i |-> params[i + k][1] ]
    IN  IF v = 4 /\ Len(p) > 1
        THEN IF Len(p) = 2 /\ p[2] = 0 THEN one(Attr("CancelUnderline"))
             ELSE IF Len(p) = 2 /\ p[2] = 2 THEN one(Attr("DoubleUnderline"))
             ELSE one(Attr("Underline"))
        ELSE IF v \in { 38, 48 } /\ Len(p) > 1
        THEN one(ColorAttr(IF v = 38 THEN "Foreground" ELSE "Background",
                           parse_sgr_color(SubColorVals(Tail(p))).color))
        ELSE IF Len(p) > 1
        THEN one(Attr("None"))
        ELSE IF v \in { 38, 48 }
        THEN LET r == parse_sgr_color(rest)
             IN  [ attr |-> ColorAttr(IF v = 38 THEN "Foreground" ELSE "Background",
                                      r.color),
                   used |-> r.used ]
        ELSE IF v \in 30 .. 37 THEN one(ColorAttr("Foreground", Named(v - 30)))
        ELSE IF v \in 40 .. 47 THEN one(ColorAttr("Background", Named(v - 40)))
        ELSE IF v \in 90 .. 97 THEN one(ColorAttr("Foreground", Named(v - 90 + 8)))
        ELSE IF v \in 100 .. 107 THEN one(ColorAttr("Background", Named(v - 100 + 8)))
        ELSE one(CASE v = 0 -> Attr("Reset")
                   [] v = 1 -> Attr("Bold")
                   [] v = 2 -> Attr("Dim")
                   [] v = 3 -> Attr("Italic")
                   [] v = 4 -> Attr("Underline")
                   [] v = 5 -> Attr("BlinkSlow")
                   [] v = 6 -> Attr("BlinkFast")
                   [] v = 7 -> Attr("Reverse")
                   [] v = 8 -> Attr("Hidden")
                   [] v = 9 -> Attr("Strike")
                   [] v = 21 -> Attr("CancelBold")
                   [] v = 22 -> Attr("CancelBoldDim")
                   [] v = 23 -> Attr("CancelItalic")
                   [] v = 24 -> Attr("CancelUnderline")
                   [] v = 25 -> Attr("CancelBlink")
                   [] v = 27 -> Attr("CancelReverse")
                   [] v = 28 -> Attr("CancelHidden")
                   [] v = 29 -> Attr("CancelStrike")
                   [] v = 39 -> ColorAttr("Foreground", DefaultCell.fg)
                   [] v = 49 -> ColorAttr("Background", DefaultCell.bg)
                   [] OTHER -> Attr("None"))

\* an attrs_from_sgr_parameters that stops after the first attribute
attrs_from_sgr_parameters_first(s, params, i) ==
    IF i > Len(params) THEN s ELSE terminal_attribute(s, sgr_attr(params, i).attr)

\* attrs_from_sgr_parameters with the closure of csi_dispatch: each attribute
\* goes to terminal_attribute, None is logged
RECURSIVE attrs_from_sgr_parameters(_, _, _)
attrs_from_sgr_parameters(s, params, i) ==
    IF i > Len(params)
    THEN s
    ELSE LET a == sgr_attr(params, i)
         IN  attrs_from_sgr_parameters(terminal_attribute(s, a.attr), params,
                                       i + 1 + a.used)

\* the loop over params_iter of the 'h' and 'l' arms: one mode per parameter
RECURSIVE set_modes(_, _, _, _, _)
set_modes(s, params, i, intermediates, on) ==
    IF i > Len(params)
    THEN s
    ELSE LET mode == from_primitive(intermediates, params[i][1])
             n == IF mode = "None"
                  THEN Tag(s, "unhandled")
                  ELSE IF on THEN set_mode(s, mode) ELSE unset_mode(s, mode)
         IN  set_modes(n, params, i + 1, intermediates, on)

\* a next_param_or without the filter on zero
next_param_or_keep_zero(params, i, default) ==
    IF i <= Len(params) THEN params[i][1] ELSE default

\* next_param_or, for the i-th call on the iterator: a missing or zero
\* parameter gives the default
next_param_or(params, i, default) ==
    IF i <= Len(params) /\ params[i][1] # 0 THEN params[i][1] ELSE default

\* Performer::print
print(s, c) ==
    input(s, c)

\* Performer::execute
execute(s, byte) ==
    CASE byte = HT -> put_tab(s, 1)
      [] byte = BS -> backspace(s)
      [] byte = CR -> carriage_return(s)
      [] byte \in { LF, VT, FF } -> linefeed(s)
      [] OTHER -> Tag(s, "unhandled")

\* Performer::csi_dispatch
csi_dispatch(s, params, intermediates, has_ignored_intermediates, action) ==
    LET p1(d) == next_param_or(params, 1, d)
        p2(d) == next_param_or(params, 2, d)
        none == intermediates = << >>
    IN  IF has_ignored_intermediates \/ Len(intermediates) > 1
        THEN Tag(s, "unhandled")
        ELSE CASE action = B("A") /\ none -> move_up(s, p1(1))
               [] action \in { B("B"), B("e") } /\ none -> move_down(s, p1(1))
               [] action \in { B("C"), B("a") } /\ none -> move_forward(s, p1(1))
               [] action = B("D") /\ none -> move_backward(s, p1(1))
               [] action = B("E") /\ none -> move_down_and_cr(s, p1(1))
               [] action = B("F") /\ none -> move_up_and_cr(s, p1(1))
               [] action \in { B("G"), B("GRAVE") } /\ none -> goto_col(s, p1(1) - 1)
               [] action \in { B("H"), B("f") } /\ none ->
                      Tag(goto(s, p1(1) - 1, p2(1) - 1), "goto")
               [] action = B("J") /\ none ->
                      LET m == p1(0)
                      IN  IF m = 0 THEN clear_screen(s, "Below")
                          ELSE IF m = 1 THEN clear_screen(s, "Above")
                          ELSE IF m = 2 THEN clear_screen(s, "All")
                          ELSE IF m = 3 THEN clear_screen(s, "Saved")
                          ELSE Tag(s, "unhandled")
               [] action = B("K") /\ none ->
                      LET m == p1(0)
                      IN  IF m = 0 THEN clear_line(s, "Right")
                          ELSE IF m = 1 THEN clear_line(s, "Left")
                          ELSE IF m = 2 THEN clear_line(s, "All")
                          ELSE Tag(s, "unhandled")
               [] action = B("P") /\ none -> delete_chars(s, p1(1))
               [] action = B("S") /\ none -> scroll_up(s, p1(1))
               [] action = B("T") /\ none -> scroll_down(s, p1(1))
               [] action = B("X") /\ none -> erase_chars(s, p1(1))
               [] action = B("d") /\ none -> goto_line(s, p1(1) - 1)
               [] action = B("h") ->
                      set_modes(Tag(s, "set_mode"), params, 1, intermediates, TRUE)
               [] action = B("l") ->
                      set_modes(Tag(s, "unset_mode"), params, 1, intermediates, FALSE)
               [] action = B("m") ->
                      IF params = << >>
                      THEN Tag(terminal_attribute(s, Attr("Reset")), "terminal_attribute")
                      ELSE Tag(attrs_from_sgr_parameters(s, params, 1),
                               "terminal_attribute")
               [] action = B("n") /\ none -> device_status(s, p1(0))
               [] action = B("r") /\ none ->
                      set_scrolling_region(s, p1(1), p2(0))
               [] OTHER -> Tag(s, "unhandled")

\* Performer::esc_dispatch
esc_dispatch(s, intermediates, ignore, byte) ==
    CASE byte = B("7") /\ intermediates = << >> -> save_cursor_position(s)
      [] byte = B("8") /\ intermediates = << >> -> restore_cursor_position(s)
      [] OTHER -> Tag(s, "unhandled")

---------------------------------------------------------------------------
(* The VTE parser that Console::write_byte drives (the vte crate; the       *)
(* state table of spec section 4.1). Bytes are ASCII (0..127). The three    *)
(* DCS states and the OSC and SOS/PM/APC strings are kept as one state      *)
(* each: their callbacks (hook, put, unhook, osc_dispatch) only log. The    *)
(* collected parameters are cleared on return to Ground; vte clears them    *)
(* on entry to the next sequence, before any use.                           *)

ParserGround ==
    [ state |-> "Ground", params |-> << >>, sub |-> << >>, param |-> 0,
      intermediates |-> << >>, ignoring |-> FALSE ]

\* Action::Clear on entry to `state`
parser_enter(state) ==
    [ ParserGround EXCEPT !.state = state ]

RECURSIVE NumValues(_)
NumValues(params) ==
    IF params = << >> THEN 0 ELSE Len(Head(params)) + NumValues(Tail(params))

\* Params::is_full: 32 values, sub-parameters included
params_full(p) ==
    NumValues(p.params) + Len(p.sub) >= 32

\* Action::Param
parser_param(p, b) ==
    IF params_full(p)
    THEN [ p EXCEPT !.ignoring = TRUE ]
    ELSE IF b = B(";")
    THEN [ p EXCEPT !.params = Append(@, p.sub \o << p.param >>),
                    !.sub = << >>, !.param = 0 ]
    ELSE IF b = B(":")
    THEN [ p EXCEPT !.sub = Append(@, p.param), !.param = 0 ]
    ELSE [ p EXCEPT !.param = Min(p.param * 10 + (b - 48), 65535) ]

\* Action::Collect: at most two intermediates are kept
parser_collect(p, b) ==
    IF Len(p.intermediates) = 2
    THEN [ p EXCEPT !.ignoring = TRUE ]
    ELSE [ p EXCEPT !.intermediates = Append(@, b) ]

\* the parameters handed to csi_dispatch: the one in progress is pushed
parser_final_params(p) ==
    IF params_full(p) THEN p.params ELSE Append(p.params, p.sub \o << p.param >>)

IsExecute(b) == b \in (0 .. 23) \cup { 25 } \cup (28 .. 31)

Step(s, p) == [ s |-> s, p |-> p ]

\* Parser::advance with the Performer on `s`: the console and parser after byte b
advance(s, p, b) ==
    LET st == p.state
        to(state) == [ p EXCEPT !.state = state ]
    IN  IF b \in { CAN, SUB }
        THEN Step(execute(s, b), ParserGround)
        ELSE IF b = ESC
        THEN Step(s, parser_enter("Escape"))
        ELSE IF st = "Ground"
        THEN IF IsExecute(b) THEN Step(execute(s, b), p) ELSE Step(print(s, b), p)
        ELSE IF st \in { "OscString", "DcsString", "SosPmApcString" }
        THEN IF st = "OscString" /\ b = 7 THEN Step(s, ParserGround) ELSE Step(s, p)
        ELSE IF IsExecute(b)
        THEN Step(execute(s, b), p)
        ELSE IF b = DEL
        THEN Step(s, p)
        ELSE IF st = "Escape"
        THEN IF b \in 32 .. 47
             THEN Step(s, [ parser_collect(p, b) EXCEPT !.state = "EscapeIntermediate" ])
             ELSE IF b = B("[") THEN Step(s, parser_enter("CsiEntry"))
             ELSE IF b = B("]") THEN Step(s, parser_enter("OscString"))
             ELSE IF b = B("P") THEN Step(s, parser_enter("DcsString"))
             ELSE IF b \in { 88, 94, 95 } THEN Step(s, parser_enter("SosPmApcString"))
             ELSE Step(esc_dispatch(s, p.intermediates, p.ignoring, b), ParserGround)
        ELSE IF st = "EscapeIntermediate"
        THEN IF b \in 32 .. 47
             THEN Step(s, parser_collect(p, b))
             ELSE Step(esc_dispatch(s, p.intermediates, p.ignoring, b), ParserGround)
        ELSE IF st = "CsiIgnore"
        THEN IF b \in 64 .. 126 THEN Step(s, ParserGround) ELSE Step(s, p)
        ELSE IF b \in 64 .. 126
        THEN Step(csi_dispatch(s, parser_final_params(p), p.intermediates,
                               p.ignoring \/ params_full(p), b),
                  ParserGround)
        ELSE IF b \in 32 .. 47
        THEN Step(s, [ parser_collect(p, b) EXCEPT !.state = "CsiIntermediate" ])
        ELSE IF st = "CsiEntry"
        THEN IF b \in 48 .. 59
             THEN Step(s, [ parser_param(p, b) EXCEPT !.state = "CsiParam" ])
             ELSE Step(s, [ parser_collect(p, b) EXCEPT !.state = "CsiParam" ])
        ELSE IF st = "CsiParam"
        THEN IF b \in 48 .. 59 THEN Step(s, parser_param(p, b)) ELSE Step(s, to("CsiIgnore"))
        ELSE Step(s, to("CsiIgnore"))

\* Console::write_byte
write_byte(s, p, b) ==
    IF s.panicked THEN Step(s, p) ELSE advance(Tag(s, "none"), p, b)

\* a write_str that stops after the first byte
write_str_first_byte(s, p, str) ==
    IF str = << >> THEN Step(s, p) ELSE write_byte(s, p, Head(str))

\* Console::write_str: write_byte for each byte in order
RECURSIVE write_str(_, _, _)
write_str(s, p, str) ==
    IF str = << >>
    THEN Step(s, p)
    ELSE LET r == write_byte(s, p, Head(str))
         IN  write_str(r.s, r.p, Tail(str))

---------------------------------------------------------------------------
(* State and actions.                                                      *)

BlankGrid(w, h, v) == [ r \in 0 .. h - 1 |-> [ c \in 0 .. w - 1 |-> v ] ]

\* the console's fields as the record the handlers work on
Self(oc) ==
    [ cursor |-> cursor, saved_cursor |-> saved_cursor, temp |-> temp,
      auto_wrap |-> auto_wrap, report |-> report, buf |-> buf,
      row_offset |-> row_offset, inner |-> inner, panicked |-> panicked,
      last |-> last, oc |-> oc, draw |-> "ok" ]

\* the same for a call during which the draws on the target end as `draw`
SelfOn(oc, draw) ==
    [ Self(oc) EXCEPT !.draw = draw ]

\* the console's variables take the fields of the record r.s and the parser r.p
Fields(r) ==
    /\ cursor' = r.s.cursor
    /\ saved_cursor' = r.s.saved_cursor
    /\ temp' = r.s.temp
    /\ auto_wrap' = r.s.auto_wrap
    /\ report' = r.s.report
    /\ buf' = r.s.buf
    /\ row_offset' = r.s.row_offset
    /\ inner' = r.s.inner
    /\ panicked' = r.s.panicked
    /\ last' = r.s.last
    /\ parser' = r.p
    /\ UNCHANGED << width, height >>

\* the same, beside an untouched reference
Becomes(r) ==
    /\ Fields(r)
    /\ UNCHANGED ref

\* Console::on_cached_text_buffer over TextBufferCache::new on a w x h inner buffer
InitFields(w, h) ==
    /\ width = w
    /\ height = h
    /\ buf = BlankGrid(w, h, DefaultCell)
    /\ row_offset = 0
    /\ inner = BlankGrid(w, h, << >>)
    /\ cursor = [ row |-> 0, col |-> 0 ]
    /\ saved_cursor = [ row |-> 0, col |-> 0 ]
    /\ temp = DefaultCell
    /\ auto_wrap = TRUE
    /\ report = << >>
    /\ parser = ParserGround
    /\ panicked = FALSE
    /\ last = [ op |-> "new", args |-> << >> ]

\* the same, beside a blank reference grid
InitOn(w, h) ==
    /\ InitFields(w, h)
    /\ ref = BlankGrid(w, h, DefaultCell)

\* one call of Console::write_byte(b); oc: the build checks overflow or not
WriteByte(b) ==
    /\ ~panicked
    /\ \E oc \in BOOLEAN : Becomes(write_byte(Self(oc), parser, b))

\* one call of Console::write_str(str)
WriteStr(str) ==
    /\ ~panicked
    /\ \E oc \in BOOLEAN : Becomes(write_str(Self(oc), parser, str))

\* one call of Console::pop_report
PopReport ==
    /\ ~panicked
    /\ Becomes(Step(pop_report(Self(FALSE)), parser))

---------------------------------------------------------------------------
(* The cache on its own: TextBuffer calls on a TextBufferCache, beside a    *)
(* reference grid that follows the copying policy of the default           *)
(* TextBuffer::new_line (text_buffer.rs).                                   *)

CacheWidths == { 1, 2 }
MaxHeight == 3

CellA == [ DefaultCell EXCEPT !.c = 65 ]
CellRed == [ DefaultCell EXCEPT !.bg = Named(Red) ]
CacheCells == { CellA, CellRed }

\* `for j in 0..width { write(i - 1, j, read(i, j)) }` on a plain grid
ref_copy_row(g, i) ==
    [ g EXCEPT ![i - 1] = g[i] ]

RECURSIVE ref_copy_rows(_, _)
ref_copy_rows(g, i) ==
    IF i >= height THEN g ELSE ref_copy_rows(ref_copy_row(g, i), i + 1)

\* the default TextBuffer::new_line on a plain grid: copy row i to row i - 1
\* for i in 1..height, then fill the last row
ref_new_line(g, cell) ==
    [ ref_copy_rows(g, 1) EXCEPT ![height - 1] = [ c \in Cols |-> cell ] ]

CacheBecomes(k, op, args, refv) ==
    /\ buf' = k.buf
    /\ row_offset' = k.row_offset
    /\ inner' = k.inner
    /\ panicked' = k.panicked
    /\ last' = [ op |-> op, args |-> args ]
    /\ ref' = refv
    /\ UNCHANGED << width, height, cursor, saved_cursor, temp, auto_wrap,
                    report, parser >>

\* TextBufferCache::write(r, c, cell)
CacheWrite(r, c, cell) ==
    /\ ~panicked
    /\ CacheBecomes(cache_write(Self(TRUE), r, c, cell), "write", << r, c, cell >>,
                    [ ref EXCEPT ![r][c] = cell ])

\* TextBufferCache::new_line(cell)
CacheNewLine(cell) ==
    /\ ~panicked
    /\ CacheBecomes(cache_new_line(Self(TRUE), cell), "new_line", << cell >>,
                    ref_new_line(ref, cell))

InitCache ==
    \E w \in CacheWidths, h \in 1 .. MaxHeight : InitOn(w, h)

NextCache ==
    \/ \E r \in Rows, c \in Cols, cell \in CacheCells : CacheWrite(r, c, cell)
    \/ \E cell \in CacheCells : CacheNewLine(cell)

SpecCache == InitCache /\ [][NextCache]_vars

---------------------------------------------------------------------------
(* The console fed with printable characters, C0 controls, cursor motion,   *)
(* erase and mode sequences, the template left at its default. Bytes go in  *)
(* one at a time (write_byte) or as whole strings (write_str); a sequence   *)
(* may be split between calls.                                              *)

\* the grids (width, height) a console is built on
Grids == { << 1, 1 >>, << 2, 1 >>, << 1, 2 >> }

\* single bytes: a printable character, the C0 controls, ESC
SpecBytes ==
    { B("A"), BS, HT, LF, VT, FF, CR, CAN, ESC }

\* strings: whole sequences, and the beginnings of sequences
SpecStrings ==
    { Bytes(<< "ESC", "[" >>),
      Bytes(<< "ESC", "[", "9" >>),
      Bytes(<< "ESC", "7" >>),
      Bytes(<< "ESC", "8" >>),
      Bytes(<< "ESC", "[", "H" >>),
      Bytes(<< "ESC", "[", "9", ";", "9", "H" >>),
      Bytes(<< "ESC", "[", "2", ";", "2", "f" >>),
      Bytes(<< "ESC", "[", "9", "d" >>),
      Bytes(<< "ESC", "[", "B" >>),
      Bytes(<< "ESC", "[", "9", "e" >>),
      Bytes(<< "ESC", "[", "E" >>),
      Bytes(<< "ESC", "[", "F" >>),
      Bytes(<< "ESC", "[", "C" >>),
      Bytes(<< "ESC", "[", "9", "a" >>),
      Bytes(<< "ESC", "[", "D" >>),
      Bytes(<< "ESC", "[", "2", "G" >>),
      Bytes(<< "ESC", "[", "9", "GRAVE" >>),
      Bytes(<< "ESC", "[", "P" >>),
      Bytes(<< "ESC", "[", "X" >>),
      Bytes(<< "ESC", "[", "K" >>),
      Bytes(<< "ESC", "[", "1", "K" >>),
      Bytes(<< "ESC", "[", "1", "J" >>),
      Bytes(<< "ESC", "[", "?", "7", "l" >>),
      Bytes(<< "ESC", "[", "?", "7", "h" >>) }

Init ==
    \E g \in Grids : InitOn(g[1], g[2])

Next ==
    \/ \E b \in SpecBytes : WriteByte(b)
    \/ \E str \in SpecStrings : WriteStr(str)

Spec == Init /\ [][Next]_vars

---------------------------------------------------------------------------
(* Printing, line feeds and the LineWrap mode on grids with more than one   *)
(* row and column.                                                          *)

WrapGrids == { << 2, 2 >>, << 3, 1 >> }

WrapBytes ==
    { B("A"), B("B"), LF, VT, FF, CR, BS, HT }

WrapStrings ==
    { Bytes(<< "ESC", "[", "?", "7", "l" >>),
      Bytes(<< "ESC", "[", "?", "7", "h" >>),
      Bytes(<< "ESC", "[", "H" >>),
      Bytes(<< "ESC", "[", "9", ";", "9", "H" >>) }

InitWrap ==
    \E g \in WrapGrids : InitOn(g[1], g[2])

NextWrap ==
    \/ \E b \in WrapBytes : WriteByte(b)
    \/ \E str \in WrapStrings : WriteStr(str)

SpecWrap == InitWrap /\ [][NextWrap]_vars

---------------------------------------------------------------------------
(* The template set by SGR, with printing, line feeds and erasing.          *)

StyleGrids == { << 2, 1 >>, << 1, 2 >> }

StyleBytes ==
    { B("A"), LF, CR }

StyleStrings ==
    { Bytes(<< "ESC", "[", "1", "m" >>),
      Bytes(<< "ESC", "[", "4", "1", "m" >>),
      Bytes(<< "ESC", "[", "m" >>),
      Bytes(<< "ESC", "[", "K" >>),
      Bytes(<< "ESC", "[", "2", "J" >>) }

InitStyle ==
    \E g \in StyleGrids : InitOn(g[1], g[2])

NextStyle ==
    \/ \E b \in StyleBytes : WriteByte(b)
    \/ \E str \in StyleStrings : WriteStr(str)

SpecStyle == InitStyle /\ [][NextStyle]_vars

---------------------------------------------------------------------------
(* Strings without ESC, beside a naive reference: a plain height x width    *)
(* array with a cursor, deferred auto-wrap at the right margin and          *)
(* scroll-by-copy on a linefeed in the last row. `ref` holds the reference's *)
(* grid and cursor.                                                         *)

NaiveGrids == { << 2, 2 >>, << 9, 1 >> }

BEL == 7

\* printable characters, the C0 controls with an effect, and ignored ones
NaiveBytes ==
    { B("A"), BS, HT, LF, VT, FF, CR, BEL, CAN }

\* the reference's linefeed: column 0; the next row, or the rows copied up
\* and a blank last row
naive_linefeed(n) ==
    IF n.cursor.row < height - 1
    THEN [ n EXCEPT !.cursor = [ row |-> n.cursor.row + 1, col |-> 0 ] ]
    ELSE [ n EXCEPT !.cursor.col = 0, !.grid = ref_new_line(n.grid, DefaultCell) ]

\* the reference's print: wrap first if the cursor is past the last column
naive_print(n, c) ==
    LET m == IF n.cursor.col >= width THEN naive_linefeed(n) ELSE n
    IN  [ m EXCEPT !.grid[m.cursor.row][m.cursor.col] = [ DefaultCell EXCEPT !.c = c ],
                   !.cursor.col = @ + 1 ]

\* the reference's tab: blank cells up to the next multiple of 8 or the width
naive_tab(n) ==
    LET stop == Min(width, (n.cursor.col \div 8) * 8 + 8)
    IN  IF n.cursor.col >= width
        THEN n
        ELSE [ n EXCEPT !.grid[n.cursor.row] =
                            [ c \in Cols |-> IF c >= n.cursor.col /\ c < stop
                                             THEN DefaultCell ELSE @[c] ],
                        !.cursor.col = stop ]

\* the reference after byte b
naive_byte(n, b) ==
    CASE b \in { LF, VT, FF } -> naive_linefeed(n)
      [] b = CR -> [ n EXCEPT !.cursor.col = 0 ]
      [] b = BS -> [ n EXCEPT !.cursor.col = SatSub(@, 1) ]
      [] b = HT -> naive_tab(n)
      [] b \in 32 .. 126 -> naive_print(n, b)
      [] OTHER -> n

RECURSIVE naive_str(_, _)
naive_str(n, str) ==
    IF str = << >> THEN n ELSE naive_str(naive_byte(n, Head(str)), Tail(str))

\* short strings of the same bytes
NaiveStrings ==
    { << B("A"), LF >>, << CR, HT >> }

InitNaive ==
    /\ \E g \in NaiveGrids : InitFields(g[1], g[2])
    /\ ref = [ grid |-> BlankGrid(width, height, DefaultCell),
               cursor |-> [ row |-> 0, col |-> 0 ] ]

NaiveWriteByte(b) ==
    /\ ~panicked
    /\ \E oc \in BOOLEAN : Fields(write_byte(Self(oc), parser, b))
    /\ ref' = naive_byte(ref, b)

NaiveWriteStr(str) ==
    /\ ~panicked
    /\ \E oc \in BOOLEAN : Fields(write_str(Self(oc), parser, str))
    /\ ref' = naive_str(ref, str)

NextNaive ==
    \/ \E b \in NaiveBytes : NaiveWriteByte(b)
    \/ \E str \in NaiveStrings : NaiveWriteStr(str)

SpecNaive == InitNaive /\ [][NextNaive]_vars

---------------------------------------------------------------------------
(* Device status queries and pop_report. The queue is a VecDeque without a  *)
(* limit; here a query is fed only while fewer than MaxReport bytes wait.   *)

ReportGrids == { << 9, 1 >>, << 1, 2 >> }

MaxReport == 6

ReportBytes ==
    { LF, CR }

ReportStrings ==
    { Bytes(<< "ESC", "[", "9", "9", "G" >>),
      Bytes(<< "ESC", "[", "H" >>) }

ReportQueries ==
    { Bytes(<< "ESC", "[", "5", "n" >>),
      Bytes(<< "ESC", "[", "6", "n" >>),
      Bytes(<< "ESC", "[", "n" >>),
      Bytes(<< "ESC", "[", "7", "n" >>),
      Bytes(<< "ESC", "[", "?", "6", "n" >>) }

InitReport ==
    \E g \in ReportGrids : InitOn(g[1], g[2])

NextReport ==
    \/ \E b \in ReportBytes : WriteByte(b)
    \/ \E str \in ReportStrings : WriteStr(str)
    \/ \E q \in ReportQueries : Len(report) < MaxReport /\ WriteStr(q)
    \/ PopReport

SpecReport == InitReport /\ [][NextReport]_vars

---------------------------------------------------------------------------
(* Queries fed without any pop_report. Nothing in device_status limits the  *)
(* queue; the exploration stops feeding queries at MaxFlood bytes.          *)

FloodGrids == { << 2, 1 >> }

MaxFlood == 68

FloodBytes ==
    { B("A"), CR }

FloodQueries ==
    { Bytes(<< "ESC", "[", "5", "n" >>) }

InitFlood ==
    \E g \in FloodGrids : InitOn(g[1], g[2])

NextFlood ==
    \/ \E b \in FloodBytes : WriteByte(b)
    \/ \E q \in FloodQueries : Len(report) < MaxFlood /\ WriteStr(q)

SpecFlood == InitFlood /\ [][NextFlood]_vars

---------------------------------------------------------------------------
(* Saving and restoring the cursor among motions, prints, scrolls, erases   *)
(* and SGR. `ref` holds the cursor as it was when ESC 7 was last fed,       *)
(* (0, 0) before any.                                                       *)

SaveGrids == { << 2, 1 >>, << 1, 2 >> }

SaveBytes ==
    { B("A"), LF, CR }

SaveStrings ==
    { Bytes(<< "ESC", "8" >>),
      Bytes(<< "ESC", "[", "H" >>),
      Bytes(<< "ESC", "[", "9", ";", "9", "H" >>),
      Bytes(<< "ESC", "[", "D" >>),
      Bytes(<< "ESC", "[", "2", "J" >>),
      Bytes(<< "ESC", "[", "1", "m" >>) }

InitSave ==
    /\ \E g \in SaveGrids : InitFields(g[1], g[2])
    /\ ref = [ row |-> 0, col |-> 0 ]

\* ESC 7 fed as one string
SaveCursor ==
    /\ ~panicked
    /\ \E oc \in BOOLEAN : Fields(write_str(Self(oc), parser, Bytes(<< "ESC", "7" >>)))
    /\ ref' = cursor

NextSave ==
    \/ \E b \in SaveBytes : WriteByte(b)
    \/ \E str \in SaveStrings : WriteStr(str)
    \/ report = << >> /\ WriteStr(Bytes(<< "ESC", "[", "5", "n" >>))
    \/ SaveCursor

SpecSave == InitSave /\ [][NextSave]_vars

---------------------------------------------------------------------------
(* The erasing sequences (EL, ECH, ED, DCH) and HT over printed cells, with *)
(* the template either default or bold on a red background.                *)

EraseGrids == { << 3, 1 >>, << 1, 2 >> }

EraseBytes ==
    { B("A"), HT }

EraseStrings ==
    { Bytes(<< "ESC", "[", "H" >>),
      Bytes(<< "ESC", "[", "C" >>),
      Bytes(<< "ESC", "[", "B" >>),
      Bytes(<< "ESC", "[", "1", ";", "4", "1", "m" >>),
      Bytes(<< "ESC", "[", "m" >>),
      Bytes(<< "ESC", "[", "K" >>),
      Bytes(<< "ESC", "[", "1", "K" >>),
      Bytes(<< "ESC", "[", "2", "K" >>),
      Bytes(<< "ESC", "[", "X" >>),
      Bytes(<< "ESC", "[", "2", "X" >>),
      Bytes(<< "ESC", "[", "J" >>),
      Bytes(<< "ESC", "[", "1", "J" >>),
      Bytes(<< "ESC", "[", "2", "J" >>),
      Bytes(<< "ESC", "[", "P" >>),
      Bytes(<< "ESC", "[", "2", "P" >>) }

InitErase ==
    \E g \in EraseGrids : InitOn(g[1], g[2])

NextErase ==
    \/ \E b \in EraseBytes : WriteByte(b)
    \/ \E str \in EraseStrings : WriteStr(str)

SpecErase == InitErase /\ [][NextErase]_vars

---------------------------------------------------------------------------
(* Mode sequences and CSI sequences with intermediate bytes, fed as whole   *)
(* strings to a console with printed cells, a moved cursor, a saved cursor, *)
(* a styled template and a queued reply. `ref` holds the string last fed.   *)

FeedGrids == { << 2, 1 >> }

\* strings that build up state
FeedStrings ==
    { << B("A") >>,
      Bytes(<< "ESC", "7" >>),
      Bytes(<< "ESC", "[", "4", "1", "m" >>) }

\* RM and SM with the private mode 7 among the parameters
WrapOffStrings ==
    { Bytes(<< "ESC", "[", "?", "7", "l" >>),
      Bytes(<< "ESC", "[", "?", "2", "5", ";", "7", "l" >>) }

WrapOnStrings ==
    { Bytes(<< "ESC", "[", "?", "7", "h" >>),
      Bytes(<< "ESC", "[", "?", "7", ";", "1", "h" >>) }

\* other mode numbers, and mode 7 without the private marker
OtherModeStrings ==
    { Bytes(<< "ESC", "[", "?", "2", "5", "l" >>),
      Bytes(<< "ESC", "[", "?", "2", "5", "h" >>),
      Bytes(<< "ESC", "[", "?", "1", ";", "3", "l" >>),
      Bytes(<< "ESC", "[", "4", "h" >>),
      Bytes(<< "ESC", "[", "2", "0", "l" >>),
      Bytes(<< "ESC", "[", "7", "h" >>),
      Bytes(<< "ESC", "[", "7", "l" >>),
      Bytes(<< "ESC", "[", "4", ";", "7", "l" >>) }

\* CSI sequences with one intermediate byte other than '?', or with two
IntermediateStrings ==
    { Bytes(<< "ESC", "[", "9", ";", "9", "!", "H" >>),
      Bytes(<< "ESC", "[", "!", "C" >>),
      Bytes(<< "ESC", "[", "2", "$", "J" >>),
      Bytes(<< "ESC", "[", "!", "P" >>),
      Bytes(<< "ESC", "[", "5", "!", "n" >>),
      Bytes(<< "ESC", "[", ">", "7", "l" >>),
      Bytes(<< "ESC", "[", "1", "!", "m" >>),
      Bytes(<< "ESC", "[", ">", "1", "m" >>),
      Bytes(<< "ESC", "[", "1", "!", "$", "m" >>),
      Bytes(<< "ESC", "[", ">", "!", "H" >>) }

InitFeed ==
    /\ \E g \in FeedGrids : InitFields(g[1], g[2])
    /\ ref = << >>

\* one call of Console::write_str(str), the string noted
Feed(str) ==
    /\ ~panicked
    /\ \E oc \in BOOLEAN : Fields(write_str(Self(oc), parser, str))
    /\ ref' = str

NextFeed ==
    \/ \E str \in FeedStrings : Feed(str)
    \/ report = << >> /\ Feed(Bytes(<< "ESC", "[", "5", "n" >>))
    \/ \E str \in WrapOffStrings \cup WrapOnStrings \cup OtherModeStrings : Feed(str)
    \/ \E str \in IntermediateStrings : Feed(str)

SpecFeed == InitFeed /\ [][NextFeed]_vars

---------------------------------------------------------------------------
(* Unsupported input, fed as whole strings to a console with printed cells, *)
(* a moved and saved cursor, a styled template, auto_wrap off and a queued  *)
(* reply. `ref` holds the string last fed.                                  *)

IgnoreGrids == { << 2, 1 >> }

\* strings that build up state
IgnoreStrings ==
    { << B("A") >>,
      Bytes(<< "ESC", "7" >>),
      Bytes(<< "ESC", "[", "4", "1", "m" >>),
      Bytes(<< "ESC", "[", "?", "7", "l" >>) }

\* CSI sequences the handlers only log
UnsupportedCsi ==
    { Bytes(<< "ESC", "[", "S" >>),
      Bytes(<< "ESC", "[", "2", "T" >>),
      Bytes(<< "ESC", "[", "r" >>),
      Bytes(<< "ESC", "[", "1", ";", "2", "r" >>),
      Bytes(<< "ESC", "[", "t" >>),
      Bytes(<< "ESC", "[", "3", "J" >>),
      Bytes(<< "ESC", "[", "4", "J" >>),
      Bytes(<< "ESC", "[", "3", "K" >>),
      Bytes(<< "ESC", "[", "Z" >>),
      Bytes(<< "ESC", "[", "2", "c" >>) }

\* ESC finals other than 7 and 8
UnsupportedEsc ==
    { Bytes(<< "ESC", "c" >>),
      Bytes(<< "ESC", "D" >>),
      Bytes(<< "ESC", "9" >>),
      Bytes(<< "ESC", "!", "7" >>) }

\* OSC strings ended by BEL or by ST, and a DCS string
UnsupportedStrings ==
    { Bytes(<< "ESC", "]", "0", ";", "A", "BEL" >>),
      Bytes(<< "ESC", "]", "A", "LF", "ESC", "BACKSLASH" >>),
      Bytes(<< "ESC", "P", "1", "$", "r", "A", "ESC", "BACKSLASH" >>) }

\* the C0 controls that Performer::execute only logs, and ESC on its own
UnsupportedC0 ==
    { << b >> : b \in (0 .. 31) \ { BS, HT, LF, VT, FF, CR } }

Unsupported ==
    UnsupportedCsi \cup UnsupportedEsc \cup UnsupportedStrings \cup UnsupportedC0

NextIgnore ==
    \/ \E str \in IgnoreStrings : Feed(str)
    \/ report = << >> /\ Feed(Bytes(<< "ESC", "[", "5", "n" >>))
    \/ \E str \in UnsupportedCsi \cup UnsupportedEsc : Feed(str)
    \/ \E str \in UnsupportedStrings : Feed(str)
    \/ \E str \in UnsupportedC0 : Feed(str)

SpecIgnore ==
    (\E g \in IgnoreGrids : InitFields(g[1], g[2])) /\ ref = << >> /\ [][NextIgnore]_vars

---------------------------------------------------------------------------
(* Relative cursor motion from every cursor the console can hold, the       *)
(* column past the last one and the row past the last one included.         *)
(* `ref` holds the string last fed.                                         *)

MoveGrids == { << 2, 3 >>, << 3, 2 >> }

MoveCounts == 1 .. 4

\* CSI n final
Csi(n, final) == << ESC, B("[") >> \o Decimal(n) \o << B(final) >>

\* strings that place the cursor
MoveStrings ==
    { << LF >>, << CR >>,
      Bytes(<< "ESC", "[", "H" >>),
      Bytes(<< "ESC", "[", "2", ";", "2", "H" >>),
      Bytes(<< "ESC", "[", "9", ";", "9", "H" >>),
      Bytes(<< "ESC", "[", "9", "G" >>) }

MoveFinals == { "A", "B", "e", "C", "a", "D", "E", "F" }

\* CUD(n) followed by CUU(n)
RoundTrip(n) == Csi(n, "B") \o Csi(n, "A")

\* the same with the parameter 0 and with no parameter
RoundTripDefaults ==
    { RoundTrip(0), Bytes(<< "ESC", "[", "B", "ESC", "[", "A" >>) }

NextMove ==
    \/ \E str \in MoveStrings : Feed(str)
    \/ \E n \in MoveCounts, f \in MoveFinals : Feed(Csi(n, f))
    \/ \E n \in MoveCounts : Feed(RoundTrip(n))
    \/ \E str \in RoundTripDefaults : Feed(str)

SpecMove ==
    (\E g \in MoveGrids : InitFields(g[1], g[2])) /\ ref = << >> /\ [][NextMove]_vars

---------------------------------------------------------------------------
(* SGR parameter lists: every list of up to three values with ';' or ':'    *)
(* between them, the 38/48 selectors with whole, truncated and out-of-range *)
(* colour values, and single parameters over the range of the match.        *)

SgrGrids == { << 1, 1 >> }

SgrValues == { 1, 5, 38, 255, 256 }

SgrLists == UNION { [ 1 .. k -> SgrValues ] : k \in 1 .. 3 }

\* selector, 2, r, g, b, with and without a colour space id, and cut short
SgrRgbLists ==
    UNION { { << sel, 2, r, g, b >>, << sel, 2, 0, r, g, b >>, << sel, 2, r, g >>,
              << sel, 2, r >>, << sel, 2 >>, << 4, r, sel, 5, g >> }
            : sel \in { 38, 48 }, r \in { 255, 256 }, g \in { 255, 256 },
              b \in { 255, 256 } }

SgrSingles ==
    { << v >> : v \in { 0, 4, 7, 24, 27, 30, 39, 40, 49, 97, 107, 108, 65535, 70000 } }

\* the values as decimal parameters with `sep` between them
RECURSIVE SgrBody(_, _)
SgrBody(vals, sep) ==
    IF Len(vals) = 1
    THEN Decimal(vals[1])
    ELSE Decimal(vals[1]) \o << sep >> \o SgrBody(Tail(vals), sep)

\* CSI vals m
Sgr(vals, sep) == << ESC, B("[") >> \o SgrBody(vals, sep) \o << B("m") >>

\* lists with empty parameters and with both separators
SgrStrings ==
    { Bytes(<< "ESC", "[", "m" >>),
      Bytes(<< "ESC", "[", ";", "1", ";", "m" >>),
      Bytes(<< "ESC", "[", "3", "8", ";", "5", ":", "1", "m" >>),
      Bytes(<< "ESC", "[", "3", "8", ":", "5", ";", "1", "m" >>),
      Bytes(<< "ESC", "[", "4", "8", ":", ":", "5", "m" >>),
      Bytes(<< "ESC", "[", "4", ":", "0", ";", "3", "8", ":", "5", ":", "2", "5", "5", "m" >>) }

NextSgr ==
    \/ \E vals \in SgrLists, sep \in { B(";"), B(":") } : WriteStr(Sgr(vals, sep))
    \/ \E vals \in SgrRgbLists, sep \in { B(";"), B(":") } : WriteStr(Sgr(vals, sep))
    \/ \E vals \in SgrSingles : WriteStr(Sgr(vals, B(";")))
    \/ \E str \in SgrStrings : WriteStr(str)

SpecSgr ==
    (\E g \in SgrGrids : InitOn(g[1], g[2])) /\ [][NextSgr]_vars

---------------------------------------------------------------------------
(* SGR reset fed once and twice to a console with a styled template,        *)
(* printed cells, auto_wrap off and a queued reply. `ref` holds the string  *)
(* last fed.                                                                *)

ResetGrids == { << 2, 1 >> }

\* strings that build up state
ResetStrings ==
    { << B("A") >>,
      Bytes(<< "ESC", "[", "1", ";", "4", "1", "m" >>),
      Bytes(<< "ESC", "[", "3", "8", ";", "5", ";", "2", "5", "5", "m" >>),
      Bytes(<< "ESC", "[", "?", "7", "l" >>) }

\* ESC[0m
SgrReset == Bytes(<< "ESC", "[", "0", "m" >>)

NextReset ==
    \/ \E str \in ResetStrings : Feed(str)
    \/ report = << >> /\ Feed(Bytes(<< "ESC", "[", "5", "n" >>))
    \/ Feed(SgrReset)
    \/ Feed(SgrReset \o SgrReset)

SpecReset ==
    (\E g \in ResetGrids : InitFields(g[1], g[2])) /\ ref = << >> /\ [][NextReset]_vars

---------------------------------------------------------------------------
(* A draw target that may fail: during each call every draw ends as one of  *)
(* DrawOutcomes. `ref` holds the string last fed and the outcome.           *)

DrawGrids == { << 2, 1 >>, << 1, 2 >> }

DrawStrings ==
    { << B("A") >>,
      << LF >>,
      Bytes(<< "ESC", "[", "4", "1", "m" >>),
      Bytes(<< "ESC", "[", "K" >>),
      Bytes(<< "ESC", "[", "2", "J" >>) }

\* one call of Console::write_str(str) on a target whose draws end as `draw`
DrawFeed(str, draw) ==
    /\ ~panicked
    /\ \E oc \in BOOLEAN : Fields(write_str(SelfOn(oc, draw), parser, str))
    /\ ref' = [ str |-> str, draw |-> draw ]

InitDraw ==
    /\ \E g \in DrawGrids : InitFields(g[1], g[2])
    /\ ref = [ str |-> << >>, draw |-> "ok" ]

NextDraw ==
    \E str \in DrawStrings, draw \in DrawOutcomes : DrawFeed(str, draw)

SpecDraw == InitDraw /\ [][NextDraw]_vars

---------------------------------------------------------------------------
(* Strings fed in pieces. `ref` holds a second console that receives each   *)
(* string in one write_str call, the string, the bytes of it the console    *)
(* has still to receive, and the number of calls that delivered the rest.   *)
(* Both consoles come from the same build (ref.oc).                         *)

SplitGrids == { << 2, 1 >>, << 1, 2 >> }

\* whole sequences, and two strings that each hold half of one
SplitStrings ==
    { Bytes(<< "A", "LF" >>),
      Bytes(<< "ESC", "[", "4", "1", "m" >>),
      Bytes(<< "ESC", "[", "2", ";", "2", "H" >>),
      Bytes(<< "ESC", "7", "ESC", "[", "H" >>),
      Bytes(<< "ESC", "[", "3" >>),
      Bytes(<< "1", "m", "B" >>) }

InitSplit ==
    /\ \E g \in SplitGrids : InitFields(g[1], g[2])
    /\ \E oc \in BOOLEAN :
          ref = [ s |-> Self(oc), p |-> parser, str |-> << >>, pending |-> << >>,
                  calls |-> 0, oc |-> oc ]

\* the second console receives str in one call of write_str
SplitWhole(str) ==
    /\ ~panicked
    /\ ref.pending = << >>
    /\ LET r == write_str(ref.s, ref.p, str)
       IN  ref' = [ ref EXCEPT !.s = r.s, !.p = r.p, !.str = str, !.pending = str,
                               !.calls = 0 ]
    /\ UNCHANGED << width, height, buf, row_offset, inner, cursor, saved_cursor,
                    temp, auto_wrap, report, parser, panicked, last >>

\* the console receives the next k pending bytes: one call of write_byte for
\* k = 1, one call of write_str otherwise
SplitPiece(k) ==
    /\ ~panicked
    /\ k <= Len(ref.pending)
    /\ Fields(IF k = 1
              THEN write_byte(Self(ref.oc), parser, Head(ref.pending))
              ELSE write_str(Self(ref.oc), parser, SubSeq(ref.pending, 1, k)))
    /\ ref' = [ ref EXCEPT !.pending = SubSeq(@, k + 1, Len(@)),
                           !.calls = @ + 1 ]

NextSplit ==
    \/ \E str \in SplitStrings : SplitWhole(str)
    \/ \E k \in 1 .. 6 : SplitPiece(k)

SpecSplit == InitSplit /\ [][NextSplit]_vars

---------------------------------------------------------------------------
(* Colour resolution: Color::to_rgb applied to every named and indexed      *)
(* colour and to some RGB ones. `ref` holds the colour and its result.      *)

RgbLevels == { 0, 128, 255 }

Colors ==
    { Named(n) : n \in 0 .. 15 } \cup { Indexed(i) : i \in 0 .. 255 }
        \cup { SpecRgb(r, g, b) : r, g, b \in RgbLevels }

InitColor ==
    /\ InitFields(1, 1)
    /\ ref = [ color |-> Named(Black), rgb |-> to_rgb(Named(Black)) ]

\* one call of Color::to_rgb
ToRgb(color) ==
    /\ ref' = [ color |-> color, rgb |-> to_rgb(color) ]
    /\ UNCHANGED << width, height, buf, row_offset, inner, cursor, saved_cursor,
                    temp, auto_wrap, report, parser, panicked, last >>

NextColor == \E color \in Colors : ToRgb(color)

SpecColor == InitColor /\ [][NextColor]_vars

---------------------------------------------------------------------------
(* Tabs on a row wider than a tab stop, over cells of two backgrounds and   *)
(* with a template that carries a flag.                                     *)

TabGrids == { << 9, 1 >>, << 3, 1 >> }

TabBytes == { HT, CR }

TabStrings ==
    { Bytes(<< "ESC", "[", "1", ";", "4", "1", "m" >>),
      Bytes(<< "ESC", "[", "m" >>),
      Bytes(<< "ESC", "[", "C" >>) }

InitTab ==
    \E g \in TabGrids : InitOn(g[1], g[2])

NextTab ==
    \/ \E b \in TabBytes : WriteByte(b)
    \/ \E str \in TabStrings : WriteStr(str)

SpecTab == InitTab /\ [][NextTab]_vars

---------------------------------------------------------------------------
(* Sequences with the parameter omitted, 0 and 1, from cursors all over the *)
(* grid and past its last column. `ref` holds the string last fed.          *)

DefaultGrids == { << 2, 1 >>, << 1, 2 >> }

\* strings that print and place the cursor
DefaultStrings ==
    { << B("A") >>,
      << LF >>,
      Bytes(<< "ESC", "[", "2", ";", "2", "H" >>),
      Bytes(<< "ESC", "[", "9", "G" >>) }

DefaultFinals ==
    { "A", "B", "C", "D", "E", "F", "G", "H", "P", "X", "a", "d", "e", "f", "GRAVE" }

\* CSI final with no parameter, and with the parameter p
CsiNone(final) == Bytes(<< "ESC", "[", final >>)
CsiWith(p, final) == Bytes(<< "ESC", "[", p, final >>)

\* CUP and HVP with two parameters that are 0 or empty
DefaultPairs ==
    { Bytes(<< "ESC", "[", "0", ";", "0", "H" >>),
      Bytes(<< "ESC", "[", ";", "H" >>),
      Bytes(<< "ESC", "[", "0", ";", "1", "H" >>),
      Bytes(<< "ESC", "[", "0", ";", "0", "f" >>) }

NextDefault ==
    \/ \E str \in DefaultStrings : Feed(str)
    \/ \E final \in DefaultFinals : Feed(CsiNone(final))
    \/ \E final \in DefaultFinals : Feed(CsiWith("0", final))
    \/ \E str \in DefaultPairs : Feed(str)

SpecDefault ==
    (\E g \in DefaultGrids : InitFields(g[1], g[2])) /\ ref = << >> /\ [][NextDefault]_vars

---------------------------------------------------------------------------
(* Printing under changing templates, from every cursor the sequences can   *)
(* reach. `ref` holds the string last fed.                                  *)

PrintGrids == { << 2, 1 >>, << 1, 2 >> }

PrintChars == { << B("X") >>, << B("Y") >> }

PrintSgrStrings ==
    { Bytes(<< "ESC", "[", "3", "1", "m" >>),
      Bytes(<< "ESC", "[", "0", "m" >>) }

PrintMoveStrings ==
    { Bytes(<< "ESC", "[", "H" >>),
      Bytes(<< "ESC", "[", "9", "d" >>) }

NextPrint ==
    \/ \E str \in PrintChars : Feed(str)
    \/ \E str \in PrintSgrStrings : Feed(str)
    \/ \E str \in PrintMoveStrings : Feed(str)

SpecPrint ==
    (\E g \in PrintGrids : InitFields(g[1], g[2])) /\ ref = << >> /\ [][NextPrint]_vars

---------------------------------------------------------------------------
(* The SGR table, entry by entry. An entry is the sequence of parameters it *)
(* takes from the list, each parameter the sequence of its sub-parameters   *)
(* (Empty for one with no digits). `ref` holds the entries last fed.        *)

Empty == 0 - 1

TableFlagCodes == { 1, 2, 3, 4, 7, 8, 9, 21, 22, 23, 24, 27, 28, 29 }

TableColourCodes ==
    (30 .. 37) \cup (90 .. 97) \cup (40 .. 47) \cup (100 .. 107) \cup { 39, 49 }

TableEntry(v) == << << v >> >>

TableSingles == { TableEntry(v) : v \in { 0 } \cup TableFlagCodes \cup TableColourCodes }

\* 38;5;n  38:5:n  38;2;r;g;b  38:2::r:g:b and the same with 48
TableSelectors ==
    UNION { { << << sel >>, << 5 >>, << 1 >> >>,
              << << sel, 5, 1 >> >>,
              << << sel >>, << 2 >>, << 1 >>, << 7 >>, << 4 >> >>,
              << << sel, 2, Empty, 1, 7, 4 >> >> } : sel \in { 38, 48 } }

\* lists that start from the default template
TableResetLists ==
    { << TableEntry(0), x >> : x \in TableSingles \cup TableSelectors }
    \cup { << TableEntry(0), x, y >> :
             x \in { TableEntry(1), TableEntry(2), TableEntry(31),
                     << << 38 >>, << 5 >>, << 1 >> >> },
             y \in { TableEntry(0), TableEntry(21), TableEntry(22), TableEntry(39),
                     TableEntry(49), TableEntry(7),
                     << << 48, 2, Empty, 1, 7, 4 >> >> } }

\* lists that work on the template as it is
TableLists ==
    { << TableEntry(1) >>, << TableEntry(41) >>, << TableEntry(22) >>,
      << TableEntry(49) >>, << TableEntry(1), TableEntry(0) >> }

\* the digits of a value, the sub-parameters of a parameter, the parameters
\* of an entry and the entries of a list, with their separators
TableDigits(v) == IF v = Empty THEN << >> ELSE Decimal(v)

RECURSIVE TableParam(_)
TableParam(p) ==
    IF Len(p) = 1
    THEN TableDigits(p[1])
    ELSE TableDigits(p[1]) \o << B(":") >> \o TableParam(Tail(p))

RECURSIVE TableParams(_)
TableParams(entry) ==
    IF Len(entry) = 1
    THEN TableParam(entry[1])
    ELSE TableParam(entry[1]) \o << B(";") >> \o TableParams(Tail(entry))

RECURSIVE TableEntries(_)
TableEntries(entries) ==
    IF Len(entries) = 1
    THEN TableParams(entries[1])
    ELSE TableParams(entries[1]) \o << B(";") >> \o TableEntries(Tail(entries))

\* CSI entries m
TableSgr(entries) ==
    << ESC, B("[") >> \o TableEntries(entries) \o << B("m") >>

TableFeed(entries) ==
    /\ ~panicked
    /\ \E oc \in BOOLEAN : Fields(write_str(Self(oc), parser, TableSgr(entries)))
    /\ ref' = entries

NextTable ==
    \/ \E entries \in TableResetLists : TableFeed(entries)
    \/ \E entries \in TableLists : TableFeed(entries)

SpecTable ==
    (\E g \in SgrGrids : InitFields(g[1], g[2])) /\ ref = << >> /\ [][NextTable]_vars

---------------------------------------------------------------------------
(* Extended-colour selectors that are malformed: a component or an index    *)
(* above 255, too few values, a selector that is neither 2 nor 5. `ref`     *)
(* holds the string last fed.                                               *)

MalformedLists ==
    { << 38, 2, 300, 1, 7 >>, << 48, 2, 1, 300, 7 >>, << 38, 5, 300 >>,
      << 48, 2, 1, 7 >>, << 38, 5 >>, << 48, 9 >>, << 38 >> }

MalformedStrings ==
    { Sgr(vals, sep) : vals \in MalformedLists, sep \in { B(";"), B(":") } }

\* well-formed lists that set flags and colours
WellFormedStrings ==
    { Sgr(vals, B(";")) : vals \in { << 0 >>, << 4 >>, << 31 >>, << 41 >> } }

NextMalformed ==
    \/ \E str \in WellFormedStrings : Feed(str)
    \/ \E str \in MalformedStrings : Feed(str)

SpecMalformed ==
    (\E g \in SgrGrids : InitFields(g[1], g[2])) /\ ref = << >>
        /\ [][NextMalformed]_vars

---------------------------------------------------------------------------
(* Cursor movement and SGR over a grid with text on it, a changed template  *)
(* and a queued reply. `ref` holds the string last fed.                     *)

CursorGrids == { << 3, 1 >>, << 1, 2 >> }

\* text, a template change, wrap off and a status query
CursorSetupStrings ==
    { Bytes(<< "A", "B" >>),
      Bytes(<< "ESC", "[", "?", "7", "l" >>) }

CursorSgrStrings ==
    { Bytes(<< "ESC", "[", "1", ";", "4", "1", "m" >>),
      Bytes(<< "ESC", "[", "0", "m" >>) }

CursorFinals == { "A", "B", "C", "D", "E", "F", "G", "H", "d" }

CursorParams == { 65535 }

\* CUU CUD CUF CUB CNL CPL CHA CUP VPA with and without a parameter, CUP with
\* two, BS and CR
CursorOnlyStrings ==
    { CsiNone(final) : final \in CursorFinals }
    \cup { Csi(n, final) : n \in CursorParams, final \in CursorFinals }
    \cup { Bytes(<< "ESC", "[", "2", ";", "2", "H" >>), << BS >>, << CR >> }

NextCursor ==
    \/ \E str \in CursorSetupStrings : Feed(str)
    \/ report = << >> /\ Feed(Bytes(<< "ESC", "[", "5", "n" >>))
    \/ \E str \in CursorSgrStrings : Feed(str)
    \/ \E str \in CursorOnlyStrings : Feed(str)

SpecCursor ==
    (\E g \in CursorGrids : InitFields(g[1], g[2])) /\ ref = << >> /\ [][NextCursor]_vars

---------------------------------------------------------------------------
(* The cache alone with all three of its mutators. `ref` holds the calls    *)
(* the last operation made on the inner buffer.                             *)

StoreGrids == { << 2, 2 >>, << 1, 3 >> }

\* TextBufferCache::write(r, c, cell)
StoreWrite(r, c, cell) ==
    /\ ~panicked
    /\ CacheBecomes(cache_write(Self(TRUE), r, c, cell), "write", << r, c, cell >>,
                    cache_write_calls(Self(TRUE), r, c, cell))

\* TextBufferCache::new_line(cell)
StoreNewLine(cell) ==
    /\ ~panicked
    /\ CacheBecomes(cache_new_line(Self(TRUE), cell), "new_line", << cell >>,
                    cache_new_line_calls(Self(TRUE), cell))

\* TextBufferCache::clear(cell)
StoreClear(cell) ==
    /\ ~panicked
    /\ CacheBecomes(cache_clear(Self(TRUE), cell), "clear", << cell >>,
                    cache_clear_calls(Self(TRUE), cell))

InitStore ==
    /\ \E g \in StoreGrids : InitFields(g[1], g[2])
    /\ ref = << >>

NextStore ==
    \/ \E r \in Rows, c \in Cols : StoreWrite(r, c, CellA)
    \/ \E cell \in CacheCells : StoreNewLine(cell)
    \/ StoreClear(CellRed)

SpecStore == InitStore /\ [][NextStore]_vars

---------------------------------------------------------------------------
(* The glyph renderer alone, on targets whose pixel sizes are and are not   *)
(* multiples of the character size. `ref` holds the renderer: the pixel     *)
(* size it was created with and the draws of its last write; width and      *)
(* height are what its width() and height() return.                         *)

GraphicWidths == { 8, 9, 17, 18, 28 }
GraphicHeights == { 17, 18, 37 }

GraphicCells ==
    { [ c |-> ch, fg |-> Named(Red), bg |-> Indexed(255), flags |-> fl ] :
        ch \in { B("A") },
        fl \in { { }, { "INVERSE" }, { "BOLD" }, { "INVERSE", "BOLD", "UNDERLINE" },
                 { "DIM", "STRIKEOUT" } } }

GraphicRows == 0 .. 2
GraphicCols == 0 .. 3

\* TextOnGraphic::new(graphic, width, height), with width() and height() as
\* the size of the grid
InitGraphic ==
    \E w \in GraphicWidths, h \in GraphicHeights :
        /\ InitFields(graphic_width(w), graphic_height(h))
        /\ ref = [ width |-> w, height |-> h, draws |-> << >> ]

\* TextOnGraphic::write(row, col, cell)
GraphicWrite(row, col, cell) ==
    /\ ref' = [ ref EXCEPT !.draws = graphic_write(ref, row, col, cell) ]
    /\ last' = [ op |-> "write", args |-> << row, col, cell >> ]
    /\ UNCHANGED << width, height, buf, row_offset, inner, cursor, saved_cursor,
                    temp, auto_wrap, report, parser, panicked >>

NextGraphic ==
    \E row \in GraphicRows, col \in GraphicCols, cell \in GraphicCells :
        GraphicWrite(row, col, cell)

SpecGraphic == InitGraphic /\ [][NextGraphic]_vars

---------------------------------------------------------------------------
(* A producer that feeds status queries and text one byte per write_byte    *)
(* call, and a consumer that takes one byte per pop_report call, in any     *)
(* interleaving of the calls. `ref` holds the bytes the producer has still  *)
(* to feed of the string it is in, and the bytes the consumer has taken of  *)
(* the reply it is in.                                                      *)

AtomicGrids == { << 2, 1 >> }

AtomicQueries ==
    { Bytes(<< "ESC", "[", "5", "n" >>),
      Bytes(<< "ESC", "[", "6", "n" >>) }

AtomicText == { << B("A") >> }

\* the final bytes of the replies: n of the status report, R of the position
ReplyFinals == { B("n"), B("R") }

InitAtomic ==
    /\ \E g \in AtomicGrids : InitFields(g[1], g[2])
    /\ ref = [ pending |-> << >>, taken |-> << >> ]

\* the producer starts on str: write_byte of its first byte
ProducerStart(str) ==
    /\ ~panicked
    /\ ref.pending = << >>
    /\ \E oc \in BOOLEAN : Fields(write_byte(Self(oc), parser, Head(str)))
    /\ ref' = [ ref EXCEPT !.pending = Tail(str) ]

\* the producer goes on: write_byte of the next byte
ProducerNext ==
    /\ ~panicked
    /\ ref.pending # << >>
    /\ \E oc \in BOOLEAN : Fields(write_byte(Self(oc), parser, Head(ref.pending)))
    /\ ref' = [ ref EXCEPT !.pending = Tail(@) ]

\* the consumer: one call of pop_report
ConsumerPop ==
    /\ ~panicked
    /\ Fields(Step(pop_report(Self(FALSE)), parser))
    /\ ref' = [ ref EXCEPT !.taken =
                  IF report = << >> THEN @
                  ELSE IF Head(report) \in ReplyFinals THEN << >>
                  ELSE Append(@, Head(report)) ]

NextAtomic ==
    \/ \E str \in AtomicQueries : Len(report) < MaxReport /\ ProducerStart(str)
    \/ \E str \in AtomicText : ProducerStart(str)
    \/ ProducerNext
    \/ ConsumerPop

SpecAtomic == InitAtomic /\ [][NextAtomic]_vars

---------------------------------------------------------------------------
(* C1: after every write_byte the cursor row is within the grid,            *)
(* 0 <= cursor.row < height, whatever row a sequence asks for               *)
C1_RowBelowHeight ==
    cursor.row \in 0 .. height - 1

(* C2: after every write_byte the cursor column satisfies                   *)
(* 0 <= cursor.col <= width, whatever column a sequence asks for            *)
C2_ColAtMostWidth ==
    cursor.col \in 0 .. width

\* CUP with a column beyond the grid has just left the cursor at column
\* width, on a grid two columns wide
C2_Witness ==
    /\ last.op = "goto"
    /\ width = 2
    /\ cursor.col = width

(* C3: every handler is total: no cell access falls outside the store and   *)
(* no unsigned subtraction underflows, so no byte sequence makes the        *)
(* console panic                                                            *)
C3_NoPanic ==
    ~panicked

---------------------------------------------------------------------------
(* C4: through read, the rotating cache is indistinguishable from the       *)
(* reference grid that copies rows up on new_line: after any sequence of    *)
(* in-range writes and new_lines, read(r, c) is the reference's cell (r, c) *)
C4_ReadMatchesCopyingReference ==
    \A r \in Rows, c \in Cols : Read(r, c) = ref[r][c]

\* a state in which the cache has rotated under written content: a new_line
\* has just run, the offset is not 0 and a written cell has moved up
C4_Witness ==
    /\ last.op = "new_line"
    /\ row_offset # 0
    /\ height >= 3
    /\ \E c \in Cols : Read(0, c) = CellA /\ ref[0][c] = CellA

(* C8: every write the cache forwards to the inner buffer uses    *)
(* the logical coordinates of the call, so after write(r, c, cell) the      *)
(* inner buffer holds cell at (r, c)                                        *)
C8_ForwardsLogicalCoordinates ==
    last.op = "write" =>
        inner[last.args[1]][last.args[2]] = << last.args[3] >>

(* C5: a linefeed (LF, VT, FF, or the one of an auto-wrap) with the cursor  *)
(* on the last row scrolls the grid by one row: each row r < height - 1     *)
(* reads as row r + 1 did, row_offset advances by one modulo height, the    *)
(* cursor row stays; above the last row it only increments the cursor row   *)
(* and changes no cell. LF, VT and FF leave the cursor at column 0.         *)
C5_LinefeedScrollsByOne ==
    [][ /\ last'.op = "linefeed" /\ cursor.row = height - 1 =>
              /\ \A r \in 0 .. height - 2, c \in Cols : ReadNext(r, c) = Read(r + 1, c)
              /\ row_offset' = (row_offset + 1) % height
              /\ cursor' = [ row |-> height - 1, col |-> 0 ]
        /\ last'.op = "linefeed" /\ cursor.row < height - 1 =>
              /\ cursor' = [ row |-> cursor.row + 1, col |-> 0 ]
              /\ UNCHANGED << buf, row_offset, inner >>
        /\ last'.op = "input" /\ auto_wrap /\ cursor.col = width
                              /\ cursor.row = height - 1 =>
              /\ \A r \in 0 .. height - 2, c \in Cols : ReadNext(r, c) = Read(r + 1, c)
              /\ row_offset' = (row_offset + 1) % height
              /\ cursor'.row = height - 1
        /\ last'.op = "input" /\ auto_wrap /\ cursor.col = width
                              /\ cursor.row < height - 1 =>
              /\ cursor'.row = cursor.row + 1
              /\ row_offset' = row_offset
              /\ \A r \in Rows, c \in Cols :
                    << r, c >> # << cursor.row + 1, 0 >> => ReadNext(r, c) = Read(r, c)
      ]_vars

\* a linefeed on the last row of a two-row grid has just scrolled a printed
\* character from the bottom row up to the top row
C5_Witness ==
    /\ last.op = "linefeed"
    /\ height = 2
    /\ last.args[1] = height - 1
    /\ cursor = [ row |-> height - 1, col |-> 0 ]
    /\ row_offset = 1
    /\ Read(0, 0).c = B("A")
    /\ Read(1, 0).c = SPACE

(* C6: after a linefeed that scrolls (cursor on the last row), every cell   *)
(* of the new bottom row is the erase cell: the default cell with the       *)
(* template's background, whatever foreground and flags the template has   *)
C6_BottomRowIsEraseCell ==
    last.op = "linefeed" /\ last.args[1] = height - 1 =>
        \A c \in Cols : Read(height - 1, c) = CellBg(temp)

(* C7: after ED mode 2 (CSI 2 J), which calls the cache's clear, the        *)
(* offset is 0, the inner buffer is written with the erase cell everywhere, *)
(* the store mirrors it so every cell reads as the erase cell, and the      *)
(* cursor is at (0, 0)                                                      *)
C7_ClearMirrorsStore ==
    last.op = "clear_screen" /\ last.args = << "All" >> =>
        /\ row_offset = 0
        /\ \A r \in Rows, c \in Cols : inner[r][c] = << CellBg(temp) >>
        /\ \A r \in Rows, c \in Cols : Read(r, c) = CellBg(temp)
        /\ cursor = [ row |-> 0, col |-> 0 ]

(* C9: with auto_wrap on, a character printed at cursor.col = width first   *)
(* takes a linefeed (the next row, or a scroll on the last row), is written *)
(* at column 0 of that row and leaves cursor.col = 1; a character printed   *)
(* at cursor.col < width is written at the cursor and never changes the     *)
(* cursor row                                                               *)
C9_DeferredWrap ==
    [][ /\ last'.op = "input" /\ auto_wrap /\ cursor.col = width =>
              /\ IF cursor.row < height - 1
                 THEN cursor'.row = cursor.row + 1 /\ row_offset' = row_offset
                 ELSE cursor'.row = cursor.row
                      /\ row_offset' = (row_offset + 1) % height
              /\ ReadNext(cursor'.row, 0) = [ temp EXCEPT !.c = last'.args[1] ]
              /\ cursor'.col = 1
        /\ last'.op = "input" /\ cursor.col < width =>
              /\ cursor' = [ row |-> cursor.row, col |-> cursor.col + 1 ]
              /\ row_offset' = row_offset
              /\ ReadNext(cursor.row, cursor.col) = [ temp EXCEPT !.c = last'.args[1] ]
      ]_vars

\* four characters printed on a fresh 2 x 2 grid: the third one wrapped to
\* row 1 without a scroll, the fourth left the cursor at (1, 2)
C9_Witness ==
    /\ last.op = "input"
    /\ auto_wrap
    /\ width = 2 /\ height = 2
    /\ row_offset = 0
    /\ cursor = [ row |-> 1, col |-> 2 ]
    /\ Read(0, 0).c = B("A") /\ Read(0, 1).c = B("B")
    /\ Read(1, 0).c = B("B") /\ Read(1, 1).c = B("A")

(* C10: with auto_wrap off, a character printed at cursor.col = width is    *)
(* discarded: the grid, the inner buffer, the cursor, the template,         *)
(* row_offset and the report queue are unchanged; a character printed at    *)
(* cursor.col < width is written at the cursor, which advances              *)
C10_DiscardAtMargin ==
    [][ /\ last'.op = "input" /\ ~auto_wrap /\ cursor.col = width =>
              UNCHANGED << buf, inner, cursor, saved_cursor, temp, row_offset,
                           report, auto_wrap >>
        /\ last'.op = "input" /\ ~auto_wrap /\ cursor.col < width =>
              /\ ReadNext(cursor.row, cursor.col) = [ temp EXCEPT !.c = last'.args[1] ]
              /\ cursor' = [ row |-> cursor.row, col |-> cursor.col + 1 ]
      ]_vars

\* with auto_wrap off a character has just arrived at the margin of a full
\* first row of a 2 x 2 grid and was dropped: the second row is untouched
C10_Witness ==
    /\ last.op = "input"
    /\ ~auto_wrap
    /\ width = 2 /\ height = 2
    /\ last.args[3] = width
    /\ cursor = [ row |-> 0, col |-> width ]
    /\ Read(0, 0).c = B("A") /\ Read(0, 1).c = B("A")
    /\ Read(1, 0) = DefaultCell /\ Read(1, 1) = DefaultCell
    /\ row_offset = 0

(* C11: for strings without ESC fed to a fresh console, the grid read       *)
(* through the cache and the cursor equal those of the naive reference      *)
(* (plain array, deferred auto-wrap, scroll-by-copy)                        *)
C11_MatchesNaiveModel ==
    /\ \A r \in Rows, c \in Cols : Read(r, c) = ref.grid[r][c]
    /\ cursor = ref.cursor
    /\ ~panicked

\* a character has just wrapped at the right margin of a two-row grid whose
\* cache is rotated, with a printed character in the top row
C11_Witness ==
    /\ last.op = "input"
    /\ last.args[3] = width
    /\ height = 2
    /\ row_offset = 1
    /\ Read(0, 0).c = B("A")
    /\ ref.grid[0][0].c = B("A")
    /\ cursor.col = 1

\* the number a string of ASCII digits denotes
RECURSIVE DigitsValue(_)
DigitsValue(d) ==
    IF d = << >> THEN 0
    ELSE DigitsValue(SubSeq(d, 1, Len(d) - 1)) * 10 + (d[Len(d)] - 48)

\* the strings of one or two ASCII digits that denote n without a leading zero
MinimalDecimals(n) ==
    { d \in UNION { [ 1 .. k -> 48 .. 57 ] : k \in 1 .. 2 } :
        DigitsValue(d) = n /\ (Len(d) > 1 => d[1] # 48) }

\* ESC [ <row+1> ; <col+1> R for a cursor at (row, col)
CprReplies(row, col) ==
    { << 27, 91 >> \o dr \o << 59 >> \o dc \o << 82 >> :
        dr \in MinimalDecimals(row + 1), dc \in MinimalDecimals(col + 1) }

(* C12: DSR 5 appends exactly 1B 5B 30 6E; DSR 6 appends exactly            *)
(* ESC [ row+1 ; col+1 R in minimal decimal for the cursor at dispatch; any *)
(* other argument appends nothing; a DSR changes neither cursor, template   *)
(* nor grid, and no other byte fed changes the bytes queued                 *)
C12_DsrReplies ==
    [][ /\ last'.op = "device_status" =>
              /\ last'.args[1] = 5 => report' = report \o << 27, 91, 48, 110 >>
              /\ last'.args[1] = 6 =>
                    \E r \in CprReplies(cursor.row, cursor.col) : report' = report \o r
              /\ last'.args[1] \notin { 5, 6 } => report' = report
              /\ UNCHANGED << cursor, saved_cursor, temp, auto_wrap, buf, row_offset, inner >>
        /\ last'.op \notin { "device_status", "pop_report" } => report' = report
      ]_vars

\* DSR 6 has just been answered with the cursor at row 0, column 9 of the
\* 9-column grid: the queue holds ESC [ 1 ; 1 0 R
C12_Witness ==
    /\ last.op = "device_status"
    /\ last.args = << 6 >>
    /\ cursor = [ row |-> 0, col |-> 9 ]
    /\ report = << 27, 91, 49, 59, 49, 48, 82 >>

(* C13: pop_report returns the queued bytes in the order they were          *)
(* enqueued: it returns and removes the oldest byte, leaving the rest in    *)
(* order; on an empty queue it returns None and changes nothing; bytes are  *)
(* only ever added at the back                                              *)
C13_PopIsFifo ==
    [][ /\ last'.op = "pop_report" /\ report # << >> =>
              /\ last'.args = << Head(report) >>
              /\ report' = Tail(report)
              /\ UNCHANGED << cursor, saved_cursor, temp, auto_wrap, buf, row_offset,
                              inner, parser >>
        /\ last'.op = "pop_report" /\ report = << >> =>
              /\ last'.args = << >>
              /\ UNCHANGED << cursor, saved_cursor, temp, auto_wrap, buf, row_offset,
                              inner, parser, report >>
        /\ last'.op # "pop_report" =>
              /\ Len(report') >= Len(report)
              /\ SubSeq(report', 1, Len(report)) = report
      ]_vars

\* a pop has just returned the first byte of the first of two replies: the
\* rest of ESC [ 0 n is followed by the whole of a later ESC [ 1 ; 1 R
C13_Witness ==
    /\ last.op = "pop_report"
    /\ last.args = << 27 >>
    /\ report = << 91, 48, 110, 27, 91, 49, 59, 49, 82 >>

(* C14: the report queue is bounded: however many queries are fed without   *)
(* a pop_report, its length never exceeds a cap of 64 bytes                 *)
C14_QueueCapped ==
    Len(report) <= 64

(* C15: ESC 8 puts the cursor exactly where it was when ESC 7 was last fed, *)
(* whatever was fed in between, and at (0, 0) if ESC 7 never was; ESC 7 and *)
(* ESC 8 change neither the template, auto_wrap, the report queue nor any   *)
(* grid cell, and ESC 7 does not move the cursor                            *)
C15_SaveRestoreRoundTrip ==
    [][ /\ last'.op = "restore_cursor_position" =>
              /\ cursor' = ref
              /\ UNCHANGED << temp, auto_wrap, report, buf, row_offset, inner >>
        /\ last'.op = "save_cursor_position" =>
              UNCHANGED << cursor, temp, auto_wrap, report, buf, row_offset, inner >>
      ]_vars

\* ESC 8 has just brought the cursor back to the saved (0, 1) of the 2 x 1
\* grid, with a character printed, bold set and a reply queued
C15_Witness ==
    /\ last.op = "restore_cursor_position"
    /\ width = 2
    /\ ref = [ row |-> 0, col |-> 1 ]
    /\ cursor = ref
    /\ Read(0, 0).c = B("A")
    /\ temp.flags = { "BOLD" }
    /\ report # << >>

\* the erase cell of the current template: the default cell on the
\* template's background
EraseCell ==
    [ c |-> SPACE, fg |-> Named(BrightWhite), bg |-> temp.bg, flags |-> { } ]

(* C16: ED mode 1 with the cursor at (row, col) overwrites with the erase   *)
(* cell the rows above and the cursor row from column 0 up to and including *)
(* the cursor column; every other cell is unchanged and the cursor stays    *)
C16_EraseAboveThroughCursor ==
    [][ last'.op = "clear_screen" /\ last'.args = << "Above" >>
            /\ cursor.row < height /\ cursor.col < width =>
              /\ \A r \in Rows, c \in Cols :
                    ReadNext(r, c) =
                        IF r < cursor.row \/ (r = cursor.row /\ c <= cursor.col)
                        THEN EraseCell
                        ELSE Read(r, c)
              /\ cursor' = cursor
      ]_vars

(* C17: DCH n at (row, col), col = width included: afterwards the cells     *)
(* [col, width - n) of the row hold what [col + n, width) held, every cell  *)
(* from max(col, width - n) to width - 1 holds the erase cell, the cells    *)
(* left of col and the other rows are unchanged, the cursor stays           *)
C17_DeleteCharsShifts ==
    [][ last'.op = "delete_chars" /\ cursor.row < height =>
              /\ ~panicked'
              /\ \A c \in Cols :
                    ReadNext(cursor.row, c) =
                        IF c < cursor.col THEN Read(cursor.row, c)
                        ELSE IF c + last'.args[1] < width
                        THEN Read(cursor.row, c + last'.args[1])
                        ELSE EraseCell
              /\ \A r \in Rows \ { cursor.row }, c \in Cols : ReadNext(r, c) = Read(r, c)
              /\ cursor' = cursor
      ]_vars

C19_OnlyPrivateMode7 ==
    /\ auto_wrap = TRUE
    /\ [][ /\ ref' \in WrapOffStrings => auto_wrap' = FALSE
           /\ ref' \in WrapOnStrings => auto_wrap' = TRUE
           /\ ref' \in OtherModeStrings => auto_wrap' = auto_wrap
           /\ ref' \in WrapOffStrings \cup WrapOnStrings \cup OtherModeStrings =>
                 UNCHANGED << cursor, saved_cursor, temp, buf, row_offset, inner,
                              report >>
         ]_vars

\* CSI ? 25 ; 7 l has just turned auto_wrap off on a console with a printed
\* cell, a red background and a queued reply
C19_Witness ==
    /\ ref = Bytes(<< "ESC", "[", "?", "2", "5", ";", "7", "l" >>)
    /\ ~auto_wrap
    /\ temp.bg = Named(Red)
    /\ report # << >>
    /\ \E c \in Cols : Read(0, c).c = B("A")

(* C20: a CSI sequence with an intermediate byte other than '?', or with    *)
(* more than one intermediate byte, is discarded whatever its final byte:   *)
(* cursor, saved cursor, template, auto_wrap, grid and report queue stay    *)
C20_IntermediatesDiscarded ==
    [][ ref' \in IntermediateStrings =>
            UNCHANGED << cursor, saved_cursor, temp, auto_wrap, buf, row_offset,
                         inner, report >>
      ]_vars


(* C21: unsupported input changes no state: CSI S, T, r, t, CSI J with mode *)
(* 3 or an unknown mode, CSI K with an unknown mode, an unknown CSI final,  *)
(* an ESC final other than 7 and 8, an OSC or DCS string, and a C0 control  *)
(* other than BS/HT/LF/VT/FF/CR each leave cursor, saved cursor, template,  *)
(* auto_wrap, every grid cell, row_offset and the report queue unchanged    *)
C21_UnsupportedChangesNothing ==
    [][ ref' \in Unsupported =>
            UNCHANGED << cursor, saved_cursor, temp, auto_wrap, buf, row_offset,
                         inner, report, panicked >>
      ]_vars

\* CSI S has just been fed to a console with a printed cell, a saved cursor
\* away from the origin, a red background, auto_wrap off and a queued reply
C21_Witness ==
    /\ ref = Bytes(<< "ESC", "[", "S" >>)
    /\ \E r \in Rows, c \in Cols : Read(r, c).c = B("A")
    /\ saved_cursor # [ row |-> 0, col |-> 0 ]
    /\ temp.bg = Named(Red)
    /\ ~auto_wrap
    /\ report # << >>


ValidColor(color) ==
    \/ color \in { Named(n) : n \in 0 .. 15 }
    \/ color[1] = "Indexed" /\ Len(color) = 2 /\ color[2] \in 0 .. 255
    \/ /\ color[1] = "Spec" /\ Len(color) = 4
       /\ \A k \in 2 .. 4 : color[k] \in 0 .. 255

(* C23: for every SGR parameter list, values above 255, truncated or        *)
(* malformed 38/48 selectors and colon sub-parameters included, the         *)
(* template after CSI ... m is valid: fg and bg are Named(0..15),           *)
(* Indexed(0..255) or Spec with every component in 0..255, flags hold only  *)
(* defined flag bits, and the template character is ' '                     *)
C23_TemplateValid ==
    /\ ValidColor(temp.fg)
    /\ ValidColor(temp.bg)
    /\ temp.flags \subseteq AllFlags
    /\ temp.c = SPACE
    /\ ~panicked

\* an SGR list has left an indexed foreground, an RGB background and flags
C23_Witness ==
    /\ last.op = "terminal_attribute"
    /\ temp.fg = Indexed(255)
    /\ temp.bg = SpecRgb(255, 255, 255)
    /\ { "BOLD", "UNDERLINE" } \subseteq temp.flags


(* C24: SGR reset is idempotent: ESC[0m fed twice in a row leaves the whole *)
(* console (template, cursor, grid, auto_wrap, report queue) as ESC[0m fed  *)
(* once does, and after one application the template is the default cell    *)
(* (' ', fg BrightWhite, bg Black, no flags) from any prior template        *)
C24_ResetIdempotent ==
    [][ /\ ref' \in { SgrReset, SgrReset \o SgrReset } =>
              /\ temp' = [ c |-> SPACE, fg |-> Named(BrightWhite),
                           bg |-> Named(Black), flags |-> { } ]
              /\ UNCHANGED << cursor, saved_cursor, auto_wrap, buf, row_offset,
                              inner, report, panicked >>
        /\ ref = SgrReset /\ ref' = SgrReset =>
              UNCHANGED << temp, cursor, saved_cursor, auto_wrap, buf, row_offset,
                           inner, report, parser, panicked >>
      ]_vars

\* ESC[0m has just been fed twice in a row to a console with a bold red cell
\* printed, auto_wrap off and a queued reply
C24_Witness ==
    /\ ref = SgrReset \o SgrReset
    /\ temp = DefaultCell
    /\ \E c \in Cols : Read(0, c).c = B("A") /\ Read(0, c).bg = Named(Red)
                       /\ "BOLD" \in Read(0, c).flags
    /\ ~auto_wrap
    /\ report # << >>


(* C25: after a LF fed with the cursor on the last row, every cell of       *)
(* logical row 0 reads as the erase cell and row_offset has advanced by one *)
(* modulo height                                                            *)
C25_TopRowIsEraseCell ==
    [][ last'.op = "linefeed" /\ cursor.row = height - 1 =>
            /\ \A c \in Cols : ReadNext(0, c) = EraseCell
            /\ row_offset' = (row_offset + 1) % height
      ]_vars


(* C26: a failing draw target does not disturb the logical model: when the  *)
(* draws of a call fail, the call still returns and the cursor, template,   *)
(* auto_wrap, report queue, row_offset and cached grid end in the state     *)
(* they reach when the draws succeed                                        *)
C26_DrawErrorSwallowed ==
    [][ ref'.draw # "ok" =>
            \E oc \in BOOLEAN :
                LET ok == write_str(SelfOn(oc, "ok"), parser, ref'.str).s
                IN  /\ cursor' = ok.cursor
                    /\ saved_cursor' = ok.saved_cursor
                    /\ temp' = ok.temp
                    /\ auto_wrap' = ok.auto_wrap
                    /\ report' = ok.report
                    /\ row_offset' = ok.row_offset
                    /\ buf' = ok.buf
                    /\ panicked' = ok.panicked
      ]_vars

\* an 'A' has just been stored on a red background while its draw failed
\* and left the target torn
C26_Witness ==
    /\ ref = [ str |-> << B("A") >>, draw |-> "torn" ]
    /\ last.op = "input"
    /\ \E r \in Rows, c \in Cols :
          /\ buf[r][c].c = B("A") /\ buf[r][c].bg = Named(Red)
          /\ inner[r][c] = Torn


(* C27: write_str(s) leaves the console in the state reached by write_byte  *)
(* on each byte of s in order; the parser state persists between calls, so  *)
(* a control sequence split across write_str / write_byte calls has the     *)
(* same effect as when it is sent in one call                               *)
C27_PiecesEqualWhole ==
    ref.pending = << >> =>
        /\ cursor = ref.s.cursor
        /\ saved_cursor = ref.s.saved_cursor
        /\ temp = ref.s.temp
        /\ auto_wrap = ref.s.auto_wrap
        /\ report = ref.s.report
        /\ buf = ref.s.buf
        /\ row_offset = ref.s.row_offset
        /\ inner = ref.s.inner
        /\ panicked = ref.s.panicked
        /\ parser = ref.p

\* ESC [ 4 1 m has arrived in five write_byte calls, after the split halves
\* of ESC [ 3 1 m set the foreground
C27_Witness ==
    /\ ref.str = Bytes(<< "ESC", "[", "4", "1", "m" >>)
    /\ ref.pending = << >>
    /\ ref.calls = 5
    /\ temp.bg = Named(Red)
    /\ temp.fg = Named(Red)
    /\ \E r \in Rows, c \in Cols : Read(r, c).c = B("B")


MoveCount(str) == CHOOSE n \in MoveCounts : \E f \in MoveFinals : str = Csi(n, f)

\* the final byte of a motion sequence
MoveFinal(str) == str[Len(str)]

(* C29: relative cursor motion, from every reachable cursor and every       *)
(* n >= 1: CUU sets row = max(row - n, 0); CUD sets row = min(row + n,      *)
(* height - 1); CUF sets col = min(col + n, width - 1); CUB sets            *)
(* col = max(col - n, 0); CNL and CPL make the row move of CUD and CUU and  *)
(* set col = 0; each leaves the other coordinate unchanged                  *)
C29_RelativeMotion ==
    [][ ref' \in { Csi(n, f) : n \in MoveCounts, f \in MoveFinals } =>
            LET n == MoveCount(ref')
                f == MoveFinal(ref')
                up == IF cursor.row - n > 0 THEN cursor.row - n ELSE 0
                down == IF cursor.row + n < height - 1 THEN cursor.row + n ELSE height - 1
                right == IF cursor.col + n < width - 1 THEN cursor.col + n ELSE width - 1
                left == IF cursor.col - n > 0 THEN cursor.col - n ELSE 0
            IN  /\ f = B("A") => cursor' = [ row |-> up, col |-> cursor.col ]
                /\ f \in { B("B"), B("e") } => cursor' = [ row |-> down, col |-> cursor.col ]
                /\ f \in { B("C"), B("a") } => cursor' = [ row |-> cursor.row, col |-> right ]
                /\ f = B("D") => cursor' = [ row |-> cursor.row, col |-> left ]
                /\ f = B("E") => cursor' = [ row |-> down, col |-> 0 ]
                /\ f = B("F") => cursor' = [ row |-> up, col |-> 0 ]
      ]_vars

\* CUF(2) has put the cursor on the last column of the second row of a grid
\* three columns wide
C29_Witness ==
    /\ ref = Csi(2, "C")
    /\ last.op = "move_forward"
    /\ cursor = [ row |-> 1, col |-> width - 1 ]
    /\ width = 3


(* C30: EL (CSI m K), for every reachable cursor, col = width included:     *)
(* mode 0 overwrites columns [col, width) of the cursor row, mode 1         *)
(* overwrites columns 0 through the cursor column (limited to the width of  *)
(* the row), mode 2 overwrites the entire row, each with the erase cell;    *)
(* the cursor and every other row are unchanged                             *)
C30_EraseInLine ==
    [][ last'.op = "clear_line" /\ cursor.row < height =>
            LET mode == last'.args[1]
                erased(c) == \/ mode = "Right" /\ c >= cursor.col
                             \/ mode = "Left" /\ c <= cursor.col
                             \/ mode = "All"
            IN  /\ ~panicked'
                /\ \A r \in Rows, c \in Cols :
                      ReadNext(r, c) =
                          IF r = cursor.row /\ erased(c) THEN EraseCell ELSE Read(r, c)
                /\ cursor' = cursor
      ]_vars


C32_ZeroIsDefault ==
    [][ /\ ref' \in { CsiNone(f) : f \in DefaultFinals }
                   \cup { CsiWith("0", f) : f \in DefaultFinals } \cup DefaultPairs =>
              \E oc \in BOOLEAN :
                  LET final == ref'[Len(ref')]
                      one == write_str(Self(oc), parser,
                                       << ESC, B("["), B("1"), final >>)
                  IN  /\ cursor' = one.s.cursor
                      /\ saved_cursor' = one.s.saved_cursor
                      /\ temp' = one.s.temp
                      /\ auto_wrap' = one.s.auto_wrap
                      /\ report' = one.s.report
                      /\ buf' = one.s.buf
                      /\ row_offset' = one.s.row_offset
                      /\ inner' = one.s.inner
                      /\ panicked' = one.s.panicked
                      /\ parser' = one.p
        /\ ref' \in DefaultPairs \cup { CsiNone("H"), CsiNone("f") } =>
              cursor' = [ row |-> 0, col |-> 0 ]
        /\ ref' # << >> /\ ref' \notin DefaultStrings =>
              cursor'.row >= 0 /\ cursor'.col >= 0
      ]_vars

\* CSI 0 P at the start of a row that held A A has deleted one character
C32_Witness ==
    /\ ref = CsiWith("0", "P")
    /\ last.op = "delete_chars"
    /\ width = 2
    /\ cursor = [ row |-> 0, col |-> 0 ]
    /\ Read(0, 0).c = B("A")
    /\ Read(0, 1).c = SPACE


(* C33: printing a character c with cursor.col < width changes exactly one  *)
(* grid cell, the one at the cursor position before the print, to ch = c    *)
(* with the colours and flags of the template at that moment, and           *)
(* increments cursor.col by one; a later SGR never alters a cell already    *)
(* written                                                                  *)
C33_PrintWritesOneCell ==
    [][ /\ ref' \in PrintChars /\ cursor.col < width =>
              /\ \A r \in Rows, c \in Cols :
                    ReadNext(r, c) =
                        IF r = cursor.row /\ c = cursor.col
                        THEN [ temp EXCEPT !.c = ref'[1] ]
                        ELSE Read(r, c)
              /\ cursor' = [ row |-> cursor.row, col |-> cursor.col + 1 ]
        /\ ref' \in PrintSgrStrings =>
              UNCHANGED << buf, row_offset, inner, cursor >>
      ]_vars


\* the values of an entry in order, an empty colour space id left out
RECURSIVE TableValues(_)
TableValues(entry) ==
    IF entry = << >>
    THEN << >>
    ELSE SelectSeq(Head(entry), LAMBDA v : v # Empty) \o TableValues(Tail(entry))

\* the colour a 38 / 48 entry selects
TableColour(vals) ==
    IF vals[2] = 5
    THEN Indexed(vals[3])
    ELSE SpecRgb(vals[Len(vals) - 2], vals[Len(vals) - 1], vals[Len(vals)])

\* the template after one entry of the table
TableEffect(t, entry) ==
    LET vals == TableValues(entry)
        v == vals[1]
        insert(f) == [ t EXCEPT !.flags = @ \cup { f } ]
        remove(fs) == [ t EXCEPT !.flags = @ \ fs ]
    IN  CASE v = 0 -> DefaultCell
          [] v = 1 -> insert("BOLD")
          [] v = 2 -> insert("DIM")
          [] v = 3 -> insert("ITALIC")
          [] v = 4 -> insert("UNDERLINE")
          [] v = 7 -> insert("INVERSE")
          [] v = 8 -> insert("HIDDEN")
          [] v = 9 -> insert("STRIKEOUT")
          [] v = 21 -> remove({ "BOLD" })
          [] v = 22 -> remove({ "BOLD", "DIM" })
          [] v = 23 -> remove({ "ITALIC" })
          [] v = 24 -> remove({ "UNDERLINE" })
          [] v = 27 -> remove({ "INVERSE" })
          [] v = 28 -> remove({ "HIDDEN" })
          [] v = 29 -> remove({ "STRIKEOUT" })
          [] v \in 30 .. 37 -> [ t EXCEPT !.fg = Named(v - 30) ]
          [] v \in 90 .. 97 -> [ t EXCEPT !.fg = Named(v - 90 + 8) ]
          [] v \in 40 .. 47 -> [ t EXCEPT !.bg = Named(v - 40) ]
          [] v \in 100 .. 107 -> [ t EXCEPT !.bg = Named(v - 100 + 8) ]
          [] v = 39 -> [ t EXCEPT !.fg = Named(BrightWhite) ]
          [] v = 49 -> [ t EXCEPT !.bg = Named(Black) ]
          [] v = 38 -> [ t EXCEPT !.fg = TableColour(vals) ]
          [] v = 48 -> [ t EXCEPT !.bg = TableColour(vals) ]

\* the entries applied from left to right
RECURSIVE TableFold(_, _)
TableFold(t, entries) ==
    IF entries = << >>
    THEN t
    ELSE TableFold(TableEffect(t, Head(entries)), Tail(entries))

(* C34: CSI ... m applies its parameters strictly left to right, each as    *)
(* the table says: 0 resets the template; 1/2/3/4/7/8/9 insert a flag;      *)
(* 21..29 remove flags; 30-37, 90-97 set fg and 40-47, 100-107 set bg to a  *)
(* named colour; 39/49 restore the default fg/bg; 38;5;n, 38:5:n,           *)
(* 38;2;r;g;b and 38:2::r:g:b set fg to Indexed(n) or Spec(r,g,b), the 48   *)
(* forms set bg; the values a selector consumes are not applied as          *)
(* attributes; 1;0 ends with no flags and 0;1 with BOLD                     *)
C34_SgrTable ==
    [][ /\ temp' = TableFold(temp, ref')
        /\ ~panicked'
        /\ ref' = << TableEntry(1), TableEntry(0) >> => temp'.flags = { }
        /\ ref' = << TableEntry(0), TableEntry(1) >> => temp'.flags = { "BOLD" }
      ]_vars

\* reset, 38;5;1 and 48:2::1:7:4 in one list: an indexed foreground, an RGB
\* background and no flag from the values 1, 7 and 4
C34_Witness ==
    /\ ref = << TableEntry(0), << << 38 >>, << 5 >>, << 1 >> >>,
                << << 48, 2, Empty, 1, 7, 4 >> >> >>
    /\ last.op = "terminal_attribute"
    /\ temp = [ c |-> SPACE, fg |-> Indexed(1), bg |-> SpecRgb(1, 7, 4), flags |-> { } ]


(* C35: a malformed SGR extended-colour selector (38 or 48 followed by a    *)
(* selector other than 2 or 5, by too few values, or by a component or      *)
(* index above 255) leaves the template's fg, bg and flags unchanged, and   *)
(* none of the selector's own values is afterwards read as a separate SGR   *)
(* attribute: in 38;2;300;1;7 the 1 and the 7 are not BOLD and INVERSE      *)
C35_MalformedSelectorInert ==
    [][ ref' \in MalformedStrings =>
            /\ temp'.fg = temp.fg
            /\ temp'.bg = temp.bg
            /\ temp'.flags = temp.flags
      ]_vars


(* C36: the cursor-only operations CUU, CUD, CUF, CUB, CNL, CPL, CHA, CUP,  *)
(* VPA, BS and CR, from every reachable state and with any parameter,       *)
(* leave every grid cell, row_offset, the template, auto_wrap and the       *)
(* report queue unchanged (after AB ESC[H row 0 still starts with AB and    *)
(* the cursor is (0,0)); SGR in turn changes only the template              *)
C36_CursorOnlyFrame ==
    [][ /\ ref' \in CursorOnlyStrings =>
              /\ UNCHANGED << buf, row_offset, inner, temp, auto_wrap, report >>
              /\ ~panicked'
        /\ ref' \in CursorSgrStrings =>
              /\ UNCHANGED << buf, row_offset, inner, cursor, saved_cursor,
                              auto_wrap, report >>
              /\ ~panicked'
        /\ ref = Bytes(<< "A", "B" >>) /\ ref' = CsiNone("H")
                /\ width = 3 /\ cursor.col = 2 =>
              /\ Read(0, 0).c = B("A") /\ Read(0, 1).c = B("B")
              /\ ReadNext(0, 0).c = B("A") /\ ReadNext(0, 1).c = B("B")
              /\ ReadNext(0, 2) = Read(0, 2)
              /\ cursor' = [ row |-> 0, col |-> 0 ]
      ]_vars

\* BS has stepped back onto the B of a bold red AB, with wrap off and a reply
\* queued
C36_Witness ==
    /\ ref = << BS >>
    /\ last.op = "backspace"
    /\ width = 3
    /\ cursor = [ row |-> 0, col |-> 1 ]
    /\ Read(0, 0).c = B("A") /\ Read(0, 1).c = B("B")
    /\ "BOLD" \in Read(0, 1).flags
    /\ Read(0, 2) = DefaultCell
    /\ ~auto_wrap
    /\ report # << >>


\* the inner buffer after the write calls of `calls` from index i on
RECURSIVE InnerAfter(_, _, _)
InnerAfter(g, calls, i) ==
    IF i > Len(calls)
    THEN g
    ELSE InnerAfter(inner_write(g, calls[i].row, calls[i].col, calls[i].cell, "ok"),
                    calls, i + 1)

(* C37: TextBufferCache.new_line does O(width) work for every height and    *)
(* every row_offset: it modifies the cells of exactly one stored row (the   *)
(* physical row at the old row_offset, which becomes the logical bottom     *)
(* row), issues exactly width writes to the inner buffer, all on a single   *)
(* inner row, performs no read of the inner buffer, and leaves every other  *)
(* stored row and inner row untouched                                       *)
C37_NewLineTouchesOneRow ==
    [][ last'.op = "new_line" =>
            /\ \A p \in Rows \ { row_offset } :
                  buf'[p] = buf[p] /\ inner'[p] = inner[p]
            /\ \A c \in Cols : buf'[row_offset][c] = last'.args[1]
            /\ (row_offset' + height - 1) % height = row_offset
            /\ \A c \in Cols : ReadNext(height - 1, c) = last'.args[1]
            /\ Len(ref') = width
            /\ \A i \in 1 .. Len(ref') :
                  ref'[i].op = "write" /\ ref'[i].row = row_offset
            /\ inner' = InnerAfter(inner, ref', 1)
      ]_vars

\* a new_line at row_offset 1 of a 2 x 2 grid: physical row 1 was refilled,
\* physical row 0 still holds a written A, and the offset wrapped to 0
C37_Witness ==
    /\ last.op = "new_line"
    /\ width = 2 /\ height = 2
    /\ row_offset = 0
    /\ Len(ref) = 2 /\ ref[1].row = 1 /\ ref[2].row = 1
    /\ buf[1] = [ c \in Cols |-> CellRed ]
    /\ buf[0][0] = CellA
    /\ inner[0][0] = << CellA >>


(* C39: the cache store and the inner buffer never diverge: after any       *)
(* sequence of write, new_line and clear on a TextBufferCache, for every    *)
(* row p < height and column c < width written at least once, the cell      *)
(* most recently forwarded to the inner buffer at (p,c) equals the stored   *)
(* cell buf[p][c]                                                           *)
C39_StoreMatchesInner ==
    \A p \in Rows, c \in Cols :
        inner[p][c] # << >> => inner[p][c] = << buf[p][c] >>


(* C38: the glyph renderer reports width() = floor(pixel_width / W_c) and   *)
(* height() = floor(pixel_height / H_c); write(r, c, cell) with             *)
(* r >= height() or c >= width() performs no draw at all; otherwise it      *)
(* draws exactly one cell at pixel origin (c * W_c, r * H_c), with text     *)
(* colour fg and fill bg, the two swapped if and only if the cell has       *)
(* INVERSE, and the bold font if and only if it has BOLD                    *)
C38_GlyphRenderer ==
    /\ width * CHAR_SIZE.width <= ref.width
    /\ ref.width < (width + 1) * CHAR_SIZE.width
    /\ height * CHAR_SIZE.height <= ref.height
    /\ ref.height < (height + 1) * CHAR_SIZE.height
    /\ last.op = "write" =>
          LET row == last.args[1]
              col == last.args[2]
              cell == last.args[3]
              inverse == "INVERSE" \in cell.flags
          IN  IF row >= height \/ col >= width
              THEN ref.draws = << >>
              ELSE /\ Len(ref.draws) = 1
                   /\ ref.draws[1].text = cell.c
                   /\ ref.draws[1].x = col * CHAR_SIZE.width
                   /\ ref.draws[1].y = row * CHAR_SIZE.height
                   /\ ref.draws[1].x + CHAR_SIZE.width <= ref.width
                   /\ ref.draws[1].y + CHAR_SIZE.height <= ref.height
                   /\ ref.draws[1].text_color =
                          to_rgb(IF inverse THEN cell.bg ELSE cell.fg)
                   /\ ref.draws[1].background_color =
                          to_rgb(IF inverse THEN cell.fg ELSE cell.bg)
                   /\ ref.draws[1].font = "FONT_BOLD" <=> "BOLD" \in cell.flags
                   /\ ref.draws[1].font \in { "FONT", "FONT_BOLD" }

\* a bold inverse cell drawn at row 1, column 2 of a 28 x 37 pixel target,
\* three columns by two rows: origin (18, 18), the colours swapped
C38_Witness ==
    /\ last.op = "write"
    /\ ref.width = 28 /\ ref.height = 37
    /\ width = 3 /\ height = 2
    /\ Len(ref.draws) = 1
    /\ ref.draws[1].x = 18 /\ ref.draws[1].y = 18
    /\ ref.draws[1].font = "FONT_BOLD"
    /\ ref.draws[1].text_color = << 238, 238, 238 >>
    /\ ref.draws[1].background_color = NamedRgb[2]


\* the complete replies a console of this size can queue
Replies ==
    { << 27, 91, 48, 110 >> }
    \cup UNION { CprReplies(r, c) : r \in 0 .. height, c \in 0 .. width }

\* q is a concatenation of complete replies
RECURSIVE CompleteReplies(_)
CompleteReplies(q) ==
    \/ q = << >>
    \/ \E r \in Replies :
          /\ Len(r) <= Len(q)
          /\ SubSeq(q, 1, Len(r)) = r
          /\ CompleteReplies(SubSeq(q, Len(r) + 1, Len(q)))

(* C40: a DSR reply is enqueued atomically with respect to write_byte: all  *)
(* its bytes are appended within the single write_byte call that delivers   *)
(* the final n, so under any interleaving of write_byte and pop_report      *)
(* calls the queue observed between calls is always a suffix of a           *)
(* concatenation of complete replies, and a drain loop that pops until      *)
(* None never ends in the middle of a reply                                 *)
C40_ReplyAtomic ==
    [][ /\ CompleteReplies(ref'.taken \o report')
        /\ report' = << >> => ref'.taken = << >>
        /\ Len(report') > Len(report) =>
              /\ last'.op = "device_status"
              /\ ref.pending = << B("n") >>
              /\ \E r \in Replies : report' = report \o r
        /\ last'.op = "pop_report" /\ report # << >> => report' = Tail(report)
        /\ last'.op \notin { "pop_report", "device_status" } => report' = report
      ]_vars

\* the consumer had taken half of a status report when the n of a position
\* query came in: the position report stands whole behind the other half
C40_Witness ==
    /\ last.op = "device_status"
    /\ ref.taken = << 27, 91 >>
    /\ report = << 48, 110, 27, 91, 49, 59, 50, 82 >>
    /\ ref.pending = << >>

====
